---- MODULE Spec2Model ----
(***************************************************************************)
(* A model of the facet query gateway backend:                             *)
(*   - services/query_translator.py  (SQLTranslator, a pure function)      *)
(*   - services/query_service.py     (QueryService.execute_query)          *)
(*   - services/metadata_service.py  (MetadataService and its cache)       *)
(*                                                                         *)
(* Python values are represented as follows.                               *)
(*   Optional[T]        : <<>> is None, <<v>> is the value v               *)
(*   a dotted name      : the sequence of its segments, <<"t", "price">>   *)
(*                        is the string "t.price"                          *)
(*   an exception       : a result record with ok = FALSE and the message  *)
(*   SQL text           : a TLA+ string, built with \o as the code builds  *)
(*                        it with f-strings and str.join                   *)
(***************************************************************************)
EXTENDS Integers, Sequences, FiniteSets, TLC

\* ------------------------------------------------------------------------
\* Python helpers
\* ------------------------------------------------------------------------

None == <<>>

Some(v) == <<v>>

IsNone(o) == o = <<>>

Val(o) == o[1]

\* str.join
RECURSIVE JoinStr(_, _)
JoinStr(items, sep) ==
    IF items = <<>> THEN ""
    ELSE IF Len(items) = 1 THEN items[1]
    ELSE items[1] \o sep \o JoinStr(Tail(items), sep)

\* A dotted name as the string the query model carries.
Name(segs) == JoinStr(segs, ".")

\* name.replace('.', '_')
ReplaceDots(segs) == JoinStr(segs, "_")

\* name.split(".")[-1] if "." in name else name
BaseName(segs) == IF Len(segs) > 1 THEN segs[Len(segs)] ELSE Name(segs)

\* str.upper on the vocabulary of the query model.
Upper(s) ==
    CASE s = "or" -> "OR"
      [] s = "and" -> "AND"
      [] s = "count" -> "COUNT"
      [] s = "sum" -> "SUM"
      [] s = "avg" -> "AVG"
      [] s = "min" -> "MIN"
      [] s = "max" -> "MAX"
      [] s = "asc" -> "ASC"
      [] s = "desc" -> "DESC"
      [] s = "minute" -> "MINUTE"
      [] s = "hour" -> "HOUR"
      [] s = "day" -> "DAY"
      [] s = "week" -> "WEEK"
      [] s = "month" -> "MONTH"
      [] s = "year" -> "YEAR"
      [] OTHER -> s

\* str.lower on upper-cased aggregate function names.
Lower(s) ==
    CASE s = "COUNT" -> "count"
      [] s = "SUM" -> "sum"
      [] s = "AVG" -> "avg"
      [] s = "MIN" -> "min"
      [] s = "MAX" -> "max"
      [] OTHER -> s

\* x in list
InSeq(x, s) == \E i \in 1..Len(s) : s[i] = x

\* The result of a call that returned v.
Ok(v) == [ok |-> TRUE, v |-> v, err |-> ""]

\* The result of a call that raised an exception with message msg.
Raise(msg) == [ok |-> FALSE, v |-> "", err |-> msg]

\* A filter value: a str, a number (kept as its str()), or a list of those.
StrV(s) == [t |-> "str", s |-> s, items |-> <<>>]

IntV(s) == [t |-> "int", s |-> s, items |-> <<>>]

ListV(items) == [t |-> "list", s |-> "", items |-> items]

\* models.query.FilterCondition
Cond(c, op, v) == [kind |-> "condition", column |-> c, operator |-> op, value |-> v]

\* models.query.LogicalFilterGroup
Group(l, cs) == [kind |-> "group", logic |-> l, conditions |-> cs]

\* models.query.Metric
Metric(c, f, a) == [column |-> c, function |-> f, alias |-> a]

\* models.query.SortOrder
SortOrder(c, d) == [column |-> c, direction |-> d]

\* models.query.TimeRange; range is the range string split at "_".
TimeRange(c, r, cr) == [column |-> c, range |-> r, customRange |-> cr]

\* ------------------------------------------------------------------------
\* services/query_translator.py : SQLTranslator
\* ------------------------------------------------------------------------

\* "not s" for an Optional[str] holding a dotted name: None or "".
Falsy(o) == IsNone(o) \/ Name(Val(o)) = ""

\* "not s" for an Optional[str] holding a plain string.
FalsyStr(o) == IsNone(o) \/ Val(o) = ""

\* PaginationError without the check of a stray offset.
PaginationErrorNoOffsetCheck(q) ==
    IF q.isServerPagination
    THEN IF IsNone(q.limit) THEN "Server-side pagination requires a limit value"
         ELSE IF IsNone(q.offset) THEN "Server-side pagination requires an offset value"
         ELSE ""
    ELSE ""

\* The pagination checks at the head of translate; "" when they pass.
PaginationError(q) ==
    IF q.isServerPagination
    THEN IF IsNone(q.limit) THEN "Server-side pagination requires a limit value"
         ELSE IF IsNone(q.offset) THEN "Server-side pagination requires an offset value"
         ELSE ""
    ELSE IF ~IsNone(q.offset) THEN "Offset can only be used with server-side pagination"
         ELSE ""

\* is_time_granularity of translate (visualization is known to be set).
IsTimeGranularity(q) ==
    /\ Val(q.visualization) = "line"
    /\ ~FalsyStr(q.granularity)
    /\ ~IsNone(q.timeRange)
    /\ ~IsNone(Val(q.timeRange).column)
    /\ q.groupBy # <<>>
    /\ InSeq(Val(Val(q.timeRange).column), q.groupBy)

\* The names of a list of dotted names.
Names(cols) == [i \in 1..Len(cols) |-> Name(cols[i])]

\* metric.alias or <default>
AliasOr(alias, default) == IF alias # "" THEN alias ELSE default

\* One metric's SELECT expression in _build_select and
\* _build_select_with_granularity.
MetricExpr(metric, selected_fields) ==
    LET func_name == IF metric.function # "" THEN Upper(metric.function) ELSE "COUNT"
    IN  IF func_name = "COUNT"
        THEN Ok("COUNT(*) AS " \o AliasOr(metric.alias, "count"))
        ELSE LET missing == Falsy(metric.column)
                 column == IF missing THEN selected_fields[1] ELSE Val(metric.column)
             IN  IF missing /\ selected_fields = <<>>
                 THEN Raise("Column must be specified for " \o func_name \o " aggregation")
                 ELSE Ok(func_name \o "(" \o Name(column) \o ") AS "
                         \o AliasOr(metric.alias, Lower(func_name) \o "_" \o BaseName(column)))

\* The loop over the metrics: the expressions in order, or the first error.
RECURSIVE MetricItems(_, _)
MetricItems(metrics, selected_fields) ==
    IF metrics = <<>> THEN Ok(<<>>)
    ELSE LET head == MetricExpr(metrics[1], selected_fields)
         IN  IF ~head.ok THEN head
             ELSE LET rest == MetricItems(Tail(metrics), selected_fields)
                  IN  IF ~rest.ok THEN rest ELSE Ok(<<head.v>> \o rest.v)

\* The select_items list of _build_select.
SelectItemsPlain(metrics, group_by, selected_fields) ==
    LET ms == MetricItems(metrics, selected_fields)
    IN  IF ~ms.ok THEN ms
        ELSE LET items == Names(group_by) \o ms.v
             IN  IF items = <<>> /\ selected_fields # <<>>
                 THEN Ok(Names(selected_fields))
                 ELSE Ok(items)

\* The per-field expressions of _build_select_for_table.
RECURSIVE TableFieldItems(_, _, _)
TableFieldItems(func_name, fields, group_by) ==
    IF fields = <<>> THEN <<>>
    ELSE LET field == fields[1]
             rest == TableFieldItems(func_name, Tail(fields), group_by)
         IN  IF InSeq(field, group_by) \/ Name(field) = ""
             THEN rest
             ELSE <<func_name \o "(" \o Name(field) \o ") AS "
                     \o Lower(func_name) \o "_" \o BaseName(field)>> \o rest

\* The select_items list of _build_select_for_table.
SelectItemsForTable(metrics, group_by, selected_fields) ==
    IF metrics = <<>> THEN Ok(Names(group_by))
    ELSE LET func_name == Upper(metrics[1].function)
         IN  IF func_name = "COUNT"
             THEN Ok(Names(group_by)
                     \o <<"COUNT(*) AS " \o AliasOr(metrics[1].alias, "count")>>)
             ELSE IF selected_fields = <<>>
             THEN Raise("You must select fields for " \o func_name \o " aggregation")
             ELSE Ok(Names(group_by)
                     \o TableFieldItems(func_name, selected_fields, group_by))

\* The alias of the truncated time column.
TruncAlias(time_column, granularity) ==
    "trunc_" \o ReplaceDots(time_column) \o "_" \o granularity

\* The dialect's truncation of the time column, aliased.
TruncExpr(dialect, time_column, granularity) ==
    LET col == Name(time_column)
        as == " AS " \o TruncAlias(time_column, granularity)
    IN  CASE dialect = "postgresql" ->
               Ok("DATE_TRUNC('" \o granularity \o "', " \o col \o ")" \o as)
          [] dialect = "clickhouse" ->
               CASE granularity = "minute" -> Ok("toStartOfMinute(" \o col \o ")" \o as)
                 [] granularity = "hour" -> Ok("toStartOfHour(" \o col \o ")" \o as)
                 [] granularity = "day" -> Ok("toStartOfDay(" \o col \o ")" \o as)
                 [] granularity = "week" -> Ok("toStartOfWeek(" \o col \o ")" \o as)
                 [] granularity = "month" -> Ok("toStartOfMonth(" \o col \o ")" \o as)
                 [] OTHER -> Raise("Unsupported granularity for ClickHouse: " \o granularity)
          [] dialect = "bigquery" ->
               Ok("TIMESTAMP_TRUNC(" \o col \o ", " \o Upper(granularity) \o ")" \o as)
          [] OTHER ->
               Ok("DATE_TRUNC('" \o granularity \o "', " \o col \o ")" \o as)

\* The select_items list of _build_select_with_granularity.
SelectItemsWithGranularity(dialect, metrics, group_by, selected_fields, time_column, granularity) ==
    LET timed == ~Falsy(time_column) /\ ~FalsyStr(granularity)
        trunc == IF timed
                 THEN TruncExpr(dialect, Val(time_column), Val(granularity))
                 ELSE Ok("")
        dims == SelectSeq(group_by, LAMBDA d : Some(d) # time_column)
    IN  IF ~trunc.ok THEN trunc
        ELSE LET ms == MetricItems(metrics, selected_fields)
             IN  IF ~ms.ok THEN ms
                 ELSE Ok((IF timed THEN <<trunc.v>> ELSE <<>>) \o Names(dims) \o ms.v)

\* "SELECT <items>", or "SELECT *" for an empty list where the code has that
\* default (_build_select, _build_select_for_table).
SelectClause(items, star) ==
    IF items = <<>> /\ star THEN "SELECT *" ELSE "SELECT " \o JoinStr(items, ", ")

\* _build_from
BuildFrom(dialect, source) ==
    IF IsNone(source) THEN Raise("Query must specify a source table")
    ELSE LET table == Val(source)
         IN  IF dialect = "postgresql" /\ Len(table) <= 1
             THEN Ok("FROM public." \o Name(table))
             ELSE Ok("FROM " \o Name(table))

\* str(value) of a filter value; a list prints the repr of its items.
PyStr(value) ==
    IF value.t = "list"
    THEN "[" \o JoinStr([i \in 1..Len(value.items) |->
                            IF value.items[i].t = "str"
                            THEN "'" \o value.items[i].s \o "'"
                            ELSE value.items[i].s], ", ") \o "]"
    ELSE value.s

\* A value as a SQL literal: a str is single-quoted, anything else is str().
Literal(value) == IF value.t = "str" THEN "'" \o value.s \o "'" ELSE PyStr(value)

\* The values_str of the in / not_in operators.
ValuesStr(value) ==
    IF value.t = "list"
    THEN JoinStr([i \in 1..Len(value.items) |-> Literal(value.items[i])], ", ")
    ELSE PyStr(value)

\* ILIKE on postgresql, LIKE elsewhere.
LikeOp(dialect) == IF dialect = "postgresql" THEN "ILIKE" ELSE "LIKE"

\* A _build_filter_condition that renders an operator it does not know as
\* an infix comparison.
BuildFilterConditionInfix(dialect, condition) ==
    LET column == condition.column
        operator == condition.operator
        value == condition.value
    IN  CASE operator = "is_null" -> column \o " IS NULL"
          [] operator = "is_not_null" -> column \o " IS NOT NULL"
          [] operator \in {"=", "!=", ">", ">=", "<", "<="} ->
               column \o " " \o operator \o " " \o Literal(value)
          [] operator = "in" -> column \o " IN (" \o ValuesStr(value) \o ")"
          [] operator = "not_in" -> column \o " NOT IN (" \o ValuesStr(value) \o ")"
          [] operator = "contains" ->
               column \o " " \o LikeOp(dialect) \o " '%" \o PyStr(value) \o "%'"
          [] operator = "starts_with" ->
               column \o " " \o LikeOp(dialect) \o " '" \o PyStr(value) \o "%'"
          [] operator = "ends_with" ->
               column \o " " \o LikeOp(dialect) \o " '%" \o PyStr(value) \o "'"
          [] OTHER -> column \o " " \o operator \o " " \o Literal(value)

\* _build_filter_condition
BuildFilterCondition(dialect, condition) ==
    LET column == condition.column
        operator == condition.operator
        value == condition.value
    IN  CASE operator = "is_null" -> column \o " IS NULL"
          [] operator = "is_not_null" -> column \o " IS NOT NULL"
          [] operator \in {"=", "!=", ">", ">=", "<", "<="} ->
               column \o " " \o operator \o " " \o Literal(value)
          [] operator = "in" -> column \o " IN (" \o ValuesStr(value) \o ")"
          [] operator = "not_in" -> column \o " NOT IN (" \o ValuesStr(value) \o ")"
          [] operator = "contains" ->
               column \o " " \o LikeOp(dialect) \o " '%" \o PyStr(value) \o "%'"
          [] operator = "starts_with" ->
               column \o " " \o LikeOp(dialect) \o " '" \o PyStr(value) \o "%'"
          [] operator = "ends_with" ->
               column \o " " \o LikeOp(dialect) \o " '%" \o PyStr(value) \o "'"
          [] OTHER -> ""

\* The return expression of _build_filter_group:
\*   f"({' ' + logic_op + ' '.join(group_conditions)})"
\* where .join binds tighter than +.
GroupString(logic_op, group_conditions) ==
    "(" \o (" " \o logic_op \o JoinStr(group_conditions, " ")) \o ")"

\* _build_filter_group
RECURSIVE BuildFilterGroup(_, _)
BuildFilterGroup(dialect, filter_group) ==
    LET conds == filter_group.conditions
        rendered == [i \in 1..Len(conds) |->
                        IF conds[i].kind = "group"
                        THEN BuildFilterGroup(dialect, conds[i])
                        ELSE BuildFilterCondition(dialect, conds[i])]
        group_conditions == SelectSeq(rendered, LAMBDA c : c # "")
    IN  IF group_conditions = <<>> THEN ""
        ELSE GroupString(Upper(filter_group.logic), group_conditions)

\* _build_time_range_condition
BuildTimeRangeCondition(dialect, time_range) ==
    LET range == time_range.range
        cr == time_range.customRange
        from_date == IF IsNone(cr) THEN None ELSE Val(cr).from
        to_date == IF IsNone(cr) THEN None ELSE Val(cr).to
        column == Name(Val(time_range.column))
        relative ==
            IF range[1] = "last" /\ Len(range) >= 2
            THEN IF Len(range) >= 3
                 THEN CASE dialect = "postgresql" ->
                             column \o " >= CURRENT_TIMESTAMP - INTERVAL '"
                                    \o range[2] \o " " \o range[3] \o "'"
                        [] dialect = "clickhouse" ->
                             column \o " >= now() - INTERVAL " \o range[2] \o " " \o range[3]
                        [] OTHER -> ""
                 ELSE ""
            ELSE IF range[1] = "this" /\ Len(range) >= 2
            THEN LET unit == range[2]
                 IN  CASE dialect = "postgresql" ->
                             column \o " >= DATE_TRUNC('" \o unit \o "', CURRENT_TIMESTAMP)"
                        [] dialect = "clickhouse" /\ unit = "day" ->
                             column \o " >= toStartOfDay(now())"
                        [] dialect = "clickhouse" /\ unit = "week" ->
                             column \o " >= toStartOfWeek(now())"
                        [] dialect = "clickhouse" /\ unit = "month" ->
                             column \o " >= toStartOfMonth(now())"
                        [] dialect = "clickhouse" /\ unit = "quarter" ->
                             column \o " >= toStartOfQuarter(now())"
                        [] dialect = "clickhouse" /\ unit = "year" ->
                             column \o " >= toStartOfYear(now())"
                        [] OTHER -> ""
            ELSE ""
    IN  IF Falsy(time_range.column) THEN ""
        ELSE IF range = <<"custom">> /\ ~IsNone(cr) /\ (~FalsyStr(from_date) \/ ~FalsyStr(to_date))
        THEN IF ~FalsyStr(from_date) /\ ~FalsyStr(to_date)
             THEN column \o " BETWEEN '" \o Val(from_date) \o "' AND '" \o Val(to_date) \o "'"
             ELSE IF ~FalsyStr(from_date)
             THEN column \o " >= '" \o Val(from_date) \o "'"
             ELSE column \o " <= '" \o Val(to_date) \o "'"
        ELSE relative

\* The conditions list of _build_where: the rendered filters, then the time
\* range condition, the empty ones dropped.
WhereConditions(dialect, filters, time_range) ==
    LET rendered == [i \in 1..Len(filters) |->
                        IF filters[i].kind = "group"
                        THEN BuildFilterGroup(dialect, filters[i])
                        ELSE BuildFilterCondition(dialect, filters[i])]
        time_condition == IF IsNone(time_range) THEN ""
                          ELSE BuildTimeRangeCondition(dialect, Val(time_range))
    IN  SelectSeq(rendered \o <<time_condition>>, LAMBDA c : c # "")

\* _build_where
BuildWhere(dialect, filters, time_range) ==
    LET conditions == WhereConditions(dialect, filters, time_range)
    IN  IF conditions = <<>> THEN "" ELSE "WHERE " \o JoinStr(conditions, " AND ")

\* "GROUP BY <items>" or nothing.
GroupByClause(items) ==
    IF items = <<>> THEN "" ELSE "GROUP BY " \o JoinStr(items, ", ")

\* modified_group_by of _build_group_by_with_granularity: the time column
\* replaced by the truncated alias.
GroupByItemsWithGranularity(group_by, time_column, granularity) ==
    IF group_by = <<>> \/ IsNone(time_column) \/ IsNone(granularity) THEN <<>>
    ELSE [i \in 1..Len(group_by) |->
            IF group_by[i] = Val(time_column)
            THEN TruncAlias(Val(time_column), Val(granularity))
            ELSE Name(group_by[i])]

\* _build_order_by
BuildOrderBy(sort) ==
    IF sort = <<>> THEN ""
    ELSE "ORDER BY " \o JoinStr([i \in 1..Len(sort) |->
                                    sort[i].column \o " " \o Upper(sort[i].direction)], ", ")

\* A _build_limit that leaves out an OFFSET of zero.
BuildLimitNoZeroOffset(limit, offset, is_server_pagination) ==
    IF is_server_pagination
    THEN "LIMIT " \o (IF IsNone(limit) THEN "None" ELSE ToString(Val(limit)))
         \o (IF IsNone(offset) \/ offset = Some(0) THEN ""
             ELSE " OFFSET " \o ToString(Val(offset)))
    ELSE IF IsNone(limit) THEN ""
    ELSE "LIMIT " \o ToString(Val(limit))

\* _build_limit
BuildLimit(limit, offset, is_server_pagination) ==
    IF is_server_pagination
    THEN "LIMIT " \o (IF IsNone(limit) THEN "None" ELSE ToString(Val(limit)))
         \o " OFFSET " \o (IF IsNone(offset) THEN "0" ELSE ToString(Val(offset)))
    ELSE IF IsNone(limit) THEN ""
    ELSE "LIMIT " \o ToString(Val(limit))

\* The select_items list translate builds, by visualization type and
\* granularity (the three-way choice of the SELECT builder).
SelectItems(dialect, q) ==
    IF IsTimeGranularity(q)
    THEN SelectItemsWithGranularity(dialect, q.agg, q.groupBy, q.selectedFields,
                                    Val(q.timeRange).column, q.granularity)
    ELSE IF Val(q.visualization) = "table" /\ q.selectedFields # <<>>
    THEN SelectItemsForTable(q.agg, q.groupBy, q.selectedFields)
    ELSE SelectItemsPlain(q.agg, q.groupBy, q.selectedFields)

\* The metric after the metrics loop of _build_select and
\* _build_select_with_granularity: metric.column = selected_fields[0] when
\* a non-COUNT metric has no column and there are selected fields.
MetricAfter(metric, selected_fields) ==
    LET func_name == IF metric.function # "" THEN Upper(metric.function) ELSE "COUNT"
    IN  IF func_name # "COUNT" /\ Falsy(metric.column) /\ selected_fields # <<>>
        THEN [metric EXCEPT !.column = Some(selected_fields[1])]
        ELSE metric

\* The metrics list after the loop (a loop that raises has assigned nothing:
\* it raises only when there are no selected fields).
MetricsAfter(metrics, selected_fields) ==
    [i \in 1..Len(metrics) |-> MetricAfter(metrics[i], selected_fields)]

\* The caller's query model object after translate has run on it.
QueryAfterTranslate(dialect, q) ==
    IF PaginationError(q) # "" \/ IsNone(q.visualization) THEN q
    ELSE IF IsTimeGranularity(q)
    THEN IF ~TruncExpr(dialect, Val(Val(q.timeRange).column), Val(q.granularity)).ok
         THEN q
         ELSE [q EXCEPT !.agg = MetricsAfter(q.agg, q.selectedFields)]
    ELSE IF Val(q.visualization) = "table" /\ q.selectedFields # <<>>
    THEN q
    ELSE [q EXCEPT !.agg = MetricsAfter(q.agg, q.selectedFields)]

\* The condition under which translate builds the GROUP BY with the
\* truncated alias: time granularity and the time column FIRST in groupBy.
UsesGranularityGroupBy(q) ==
    /\ IsTimeGranularity(q)
    /\ q.groupBy # <<>>
    /\ ~IsNone(q.timeRange)
    /\ ~IsNone(Val(q.timeRange).column)
    /\ q.groupBy[1] = Val(Val(q.timeRange).column)

\* The columns of the GROUP BY clause translate emits.
GroupByItems(q) ==
    IF UsesGranularityGroupBy(q)
    THEN GroupByItemsWithGranularity(q.groupBy, Val(q.timeRange).column, q.granularity)
    ELSE IF q.agg # <<>> \/ q.groupBy # <<>>
    THEN Names(q.groupBy)
    ELSE <<>>

\* What a failed translate leaves: no SQL, no clauses.
TranslateError(msg) ==
    [ok |-> FALSE, v |-> "", err |-> msg, select |-> <<>>, where |-> <<>>, groupBy |-> <<>>]

\* SQLTranslator.translate: the SQL string (v), with the SELECT items, the
\* WHERE conditions and the GROUP BY columns it was assembled from, or the
\* exception raised.
Translate(dialect, q) ==
    IF PaginationError(q) # "" THEN TranslateError(PaginationError(q))
    ELSE IF IsNone(q.visualization)
    THEN TranslateError("'NoneType' object has no attribute 'type'")
    ELSE LET select == SelectItems(dialect, q)
             from == BuildFrom(dialect, q.source)
             timed == IsTimeGranularity(q)
         IN  IF ~select.ok THEN TranslateError(select.err)
             ELSE IF ~from.ok THEN TranslateError(from.err)
             ELSE [ok |-> TRUE,
                   v |-> SelectClause(select.v, ~timed) \o "\n" \o from.v \o "\n"
                         \o BuildWhere(dialect, q.filters, q.timeRange) \o "\n"
                         \o GroupByClause(GroupByItems(q)) \o "\n"
                         \o BuildOrderBy(q.sort) \o "\n"
                         \o BuildLimit(q.limit, q.offset, q.isServerPagination),
                   err |-> "",
                   select |-> select.v,
                   where |-> WhereConditions(dialect, q.filters, q.timeRange),
                   groupBy |-> GroupByItems(q)]

\* The query model translate_count hands to translate: the caller's own.
CountQueryModel(q) == q

\* The COUNT wrapper around a base SQL string.
CountWrap(dialect, base_sql) ==
    "SELECT COUNT(*) AS count FROM (" \o base_sql \o ")"
    \o (IF dialect = "clickhouse" THEN " AS sub_query" ELSE "")

\* SQLTranslator.translate_count
TranslateCount(dialect, q) ==
    LET base == Translate(dialect, CountQueryModel(q))
    IN  IF ~base.ok THEN Raise(base.err) ELSE Ok(CountWrap(dialect, base.v))

\* ------------------------------------------------------------------------
\* State
\* ------------------------------------------------------------------------

VARIABLES
    tq,         \* translator: the query model handed to the translator
    tdialect,   \* translator: the dialect the SQLTranslator was built with
    tres,       \* translator: Optional result of translate(tq)
    cres,       \* translator: Optional result of translate_count(tq)
    qconn,      \* query service: connection.type of the request's connection
    qquery,     \* query service: the request's query model
    qpc,        \* query service: where execute_query stands
    connector,  \* query service: Optional driver built by the factory
    calls,      \* query service: the calls the driver has received, in order
    sql,        \* query service: the local variable sql (None while unbound)
    exc,        \* query service: Optional exception caught by the handler
    qresult,    \* query service: Optional QueryResult returned
    http,       \* query router: Optional HTTP response of the request
    metadata,   \* metadata service: self.metadata, connection id -> Optional entry
    task,       \* metadata service: each concurrent caller's operation and position
    nextExt,    \* metadata service: the number of driver get_metadata calls made
    lastReturned, \* drivers: per connection, the latest get_metadata call that returned
    predefined_connections, \* connection service: self.predefined_connections
    session_connections,    \* connection service: self.session_connections
    loaded,     \* connection service: the predefined connections as loaded at start
    clast,      \* connection service: Optional last call, its argument and result
    dkind,      \* driver: the variant (connection type) of the driver
    driver,     \* driver: which of client, pool and session it holds
    dphase,     \* driver: new, failed (connect raised), connected or closed
    dcalls,      \* driver: the calls made on it, each with the phase it came in and its outcome
    bkind,      \* blocking drivers: the variant (bigquery or snowflake)
    bclient,    \* blocking drivers: whether self.client is set
    bops,       \* blocking drivers: the operations called on the driver, in order
    blog,        \* blocking drivers: the blocking client calls made, each with its thread
    config,     \* config loader: the entries of connections.yaml, in file order
    li,         \* config loader: the index i of the enumerate loop (from 0)
    lpc,         \* config loader: loop, done, or failed (the except clause was reached)
    hconfig,    \* connection routes: the predefined connections the config file yields
    hlive,      \* connection routes: the ids created by POST and not deleted since
    hlog        \* connection routes: the requests served, each with what it found

tvars == <<tq, tdialect, tres, cres>>

qvars == <<qconn, qquery, qpc, connector, calls, sql, exc, qresult, http>>

mvars == <<metadata, task, nextExt, lastReturned>>

cvars == <<predefined_connections, session_connections, loaded, clast>>

dvars == <<dkind, driver, dphase, dcalls>>

bvars == <<bkind, bclient, bops, blog>>

lvars == <<config, li, lpc>>

hvars == <<hconfig, hlive, hlog>>

vars == <<tvars, qvars, mvars, cvars, dvars, bvars, lvars, hvars>>

\* ------------------------------------------------------------------------
\* Bounds and input sets
\* ------------------------------------------------------------------------

\* The largest LIMIT a query asks for.
MaxLimit == 1

\* The largest OFFSET a query asks for.
MaxOffset == 1

OptLimits == {None} \cup {Some(n) : n \in 0..MaxLimit}

OptOffsets == {None} \cup {Some(n) : n \in 0..MaxOffset}

Dialects == {"postgresql", "clickhouse", "bigquery", "snowflake"}

CondTs == Cond("ts", ">=", StrV("2025-03-01T00:00:00Z"))

CondUS == Cond("country", "=", StrV("US"))

CondCA == Cond("country", "=", StrV("CA"))

CondAge == Cond("age", ">", IntV("30"))

CondUnknown == Cond("age", "between", IntV("30"))

\* The filter lists queries are drawn from: none, the nested OR of the
\* translator's test, a three-level nesting, and groups with members that
\* render to nothing.
FilterChoices ==
    { <<>>,
      <<CondUnknown>>,
      <<CondTs, Group("or", <<CondUS, CondCA>>)>>,
      <<Group("and", <<CondAge, Group("or", <<CondUS, CondCA, CondTs>>)>>)>>,
      <<Group("or", <<CondUnknown, CondUS>>), Group("and", <<CondUnknown>>)>> }

TsCol == <<"ts">>

ServiceCol == <<"service">>

PriceCol == <<"t", "price">>

GroupByChoices == { <<>>, <<TsCol>>, <<TsCol, ServiceCol>>, <<ServiceCol, TsCol>> }

AggChoices ==
    { <<>>,
      <<Metric(None, "count", "n")>>,
      <<Metric(None, "sum", "")>> }

TimeRangeChoices ==
    { None,
      Some(TimeRange(Some(TsCol), <<"last", "7", "days">>, None)),
      Some(TimeRange(None, <<"this", "month">>, None)) }

SortChoices == { <<>>, <<SortOrder("n", "desc")>> }

VisualizationChoices == { None, Some("table"), Some("line") }

SelectedFieldsChoices == { <<>>, <<PriceCol>> }

GranularityChoices == { None, Some("day"), Some("year") }

\* The query models the translator is applied to.
TranslatorQueries ==
    [ source : {Some(<<"events">>)},
      filters : FilterChoices,
      groupBy : GroupByChoices,
      agg : AggChoices,
      timeRange : TimeRangeChoices,
      sort : {<<SortOrder("n", "desc")>>},
      limit : OptLimits,
      offset : OptOffsets,
      isServerPagination : BOOLEAN,
      visualization : VisualizationChoices,
      selectedFields : SelectedFieldsChoices,
      granularity : GranularityChoices ]

\* ------------------------------------------------------------------------
\* The translator applied to a query
\* ------------------------------------------------------------------------

\* The translator at rest: nothing to translate.
TIdle ==
    /\ tq = None
    /\ tdialect = ""
    /\ tres = None
    /\ cres = None

\* The query service at rest: no request.
QIdle ==
    /\ qconn = ""
    /\ qquery = None
    /\ qpc = "idle"
    /\ connector = None
    /\ calls = <<>>
    /\ sql = None
    /\ exc = None
    /\ qresult = None
    /\ http = None

\* The connections of the metadata service's callers, by id.
ConnIds == {"pg", "ch", "bq"}

\* The calls of the metadata service in one run, each in a coroutine of its
\* own, numbered in the order they are made.
NumTasks == 2

Tasks == 1..NumTasks

\* models.metadata.MetadataUpdateRequest with nothing to change.
NoPatch ==
    [displayName |-> None, description |-> None, category |-> None,
     explorable |-> None]

\* A caller with no operation in progress.
IdleTask ==
    [op |-> "none", conn |-> "", arg |-> "", pc |-> "idle", ext |-> 0,
     pool |-> FALSE, pending |-> None, wrote |-> FALSE, result |-> None,
     hadEntry |-> FALSE, driverCalls |-> 0, patch |-> NoPatch]

\* The metadata service at rest: MetadataService.__init__, no caller.
MIdle ==
    /\ metadata = [c \in ConnIds |-> None]
    /\ task = [t \in Tasks |-> IdleTask]
    /\ nextExt = 0
    /\ lastReturned = [c \in ConnIds |-> 0]

\* No connection service.
CIdle ==
    /\ predefined_connections = <<>>
    /\ session_connections = <<>>
    /\ loaded = <<>>
    /\ clast = None

\* A driver as its __init__ leaves it: no client, no pool, no session.
NewDriver == [client |-> FALSE, pool |-> FALSE, session |-> FALSE]

\* No driver.
DIdle ==
    /\ dkind = ""
    /\ driver = NewDriver
    /\ dphase = "new"
    /\ dcalls = <<>>

\* No driver with a worker pool.
BIdle ==
    /\ bkind = ""
    /\ bclient = FALSE
    /\ bops = <<>>
    /\ blog = {}

\* No config file being loaded.
LIdle ==
    /\ config = <<>>
    /\ li = 0
    /\ lpc = "done"

\* No request served by the connection routes.
HIdle ==
    /\ hconfig = <<>>
    /\ hlive = {}
    /\ hlog = <<>>

TInit ==
    /\ CIdle
    /\ DIdle
    /\ tq \in TranslatorQueries
    /\ tdialect \in Dialects
    /\ tres = None
    /\ cres = None
    /\ QIdle
    /\ MIdle
    /\ BIdle
    /\ LIdle
    /\ HIdle

\* translator.translate(query_model)
TranslateCall ==
    /\ tres = None
    /\ tres' = Some(Translate(tdialect, tq))
    /\ tq' = QueryAfterTranslate(tdialect, tq)
    /\ UNCHANGED <<tdialect, cres, qvars, mvars, cvars, dvars, bvars, lvars, hvars>>

\* translator.translate_count(query_model)
TranslateCountCall ==
    /\ cres = None
    /\ cres' = Some(TranslateCount(tdialect, tq))
    /\ tq' = QueryAfterTranslate(tdialect, CountQueryModel(tq))
    /\ UNCHANGED <<tdialect, tres, qvars, mvars, cvars, dvars, bvars, lvars, hvars>>

TNext == TranslateCall \/ TranslateCountCall

SpecTranslator == TInit /\ [][TNext]_vars

\* ------------------------------------------------------------------------
\* Properties of the translator
\* ------------------------------------------------------------------------

\* The messages of the three pagination checks.
PaginationMessages ==
    { "Server-side pagination requires a limit value",
      "Server-side pagination requires an offset value",
      "Offset can only be used with server-side pagination" }

\* The query breaks the pagination invariant of the query model.
BreaksPagination(q) ==
    \/ q.isServerPagination /\ (IsNone(q.limit) \/ IsNone(q.offset))
    \/ ~q.isServerPagination /\ ~IsNone(q.offset)

\* C4: translate enforces the pagination invariant before producing any
\* SQL: with isServerPagination and a null limit or offset, or without
\* isServerPagination and a non-null offset, it raises one of the pagination
\* errors (also when a later step would fail too) and returns no SQL.
C4_PaginationEnforced ==
    (~IsNone(tres) /\ BreaksPagination(tq))
        => /\ ~Val(tres).ok
           /\ Val(tres).v = ""
           /\ Val(tres).err \in PaginationMessages

\* C4 witness: translate was applied to an unpaginated query carrying an
\* offset, and to nothing else wrong, and failed.
C4_Witness ==
    /\ ~IsNone(tres)
    /\ ~tq.isServerPagination
    /\ ~IsNone(tq.offset)
    /\ ~IsNone(tq.visualization)
    /\ ~Val(tres).ok

\* q with limit and offset null and isServerPagination false.
Cleared(q) == [q EXCEPT !.limit = None, !.offset = None, !.isServerPagination = FALSE]

\* C5: translate_count(q) is "SELECT COUNT(*) AS count FROM (" +
\* translate(q') + ")", with " AS sub_query" appended only for clickhouse,
\* where q' is q with limit and offset null and isServerPagination false;
\* stated for every q whose q' translates.
C5_CountWrapsClearedQuery ==
    (~IsNone(cres) /\ Translate(tdialect, Cleared(tq)).ok)
        => /\ Val(cres).ok
           /\ Val(cres).v = "SELECT COUNT(*) AS count FROM ("
                            \o Translate(tdialect, Cleared(tq)).v \o ")"
                            \o (IF tdialect = "clickhouse" THEN " AS sub_query" ELSE "")

\* The rendering of a filter node that C6 states: a condition as
\* _build_filter_condition renders it, a group as its members' renderings in
\* list order with " <LOGIC> " between neighbours, in parentheses.
RECURSIVE ClaimedRendering(_, _)
ClaimedRendering(dialect, node) ==
    IF node.kind = "group"
    THEN "(" \o JoinStr([i \in 1..Len(node.conditions) |->
                            ClaimedRendering(dialect, node.conditions[i])],
                        " " \o Upper(node.logic) \o " ") \o ")"
    ELSE BuildFilterCondition(dialect, node)

\* Every condition below the node has a known operator, every group a member.
RECURSIVE AllRender(_)
AllRender(node) ==
    IF node.kind = "group"
    THEN /\ node.conditions # <<>>
         /\ \A i \in 1..Len(node.conditions) : AllRender(node.conditions[i])
    ELSE BuildFilterCondition("postgresql", node) # ""

\* C6: a filter group {logic: L, conditions: [c1..cn]} is rendered as
\* "(" r(c1) " L " r(c2) ... " L " r(cn) ")", the members in list order and
\* nested groups rendered the same way; stated for the filters of a
\* translated query whose conditions all have known operators.
C6_GroupRendering ==
    (/\ ~IsNone(tres)
     /\ Val(tres).ok
     /\ \A i \in 1..Len(tq.filters) : AllRender(tq.filters[i]))
        => \A i \in 1..Len(tq.filters) :
              Val(tres).where[i] = ClaimedRendering(tdialect, tq.filters[i])

\* The number of entries of a list equal to x.
Occurrences(x, s) == Cardinality({i \in 1..Len(s) : s[i] = x})

\* C7: for a translated query with visualization line, a granularity g and
\* timeRange.column in groupBy at any position, the SELECT has exactly one
\* truncated time expression aliased trunc_<col>_<g>, and the GROUP BY names
\* that alias and never the raw time column.
C7_GranularityGroupBy ==
    (/\ ~IsNone(tres)
     /\ Val(tres).ok
     /\ tq.visualization = Some("line")
     /\ ~FalsyStr(tq.granularity)
     /\ ~IsNone(tq.timeRange)
     /\ ~IsNone(Val(tq.timeRange).column)
     /\ InSeq(Val(Val(tq.timeRange).column), tq.groupBy))
        => LET col == Val(Val(tq.timeRange).column)
               g == Val(tq.granularity)
           IN  /\ Occurrences(TruncExpr(tdialect, col, g).v, Val(tres).select) = 1
               /\ InSeq(TruncAlias(col, g), Val(tres).groupBy)
               /\ ~InSeq(Name(col), Val(tres).groupBy)

\* ------------------------------------------------------------------------
\* services/query_service.py : QueryService.execute_query
\* ------------------------------------------------------------------------

\* The most rows a driver returns for one statement.
MaxRows == 2

\* connection.type of the connections requests name.
ConnectionTypes == {"postgres", "clickhouse", "bigquery", "snowflake", "mysql"}

\* The query models requests carry: any pagination, with and without a
\* visualization (translate fails without), grouped or not.
ServiceQueries ==
    [ source : {Some(<<"events">>)},
      filters : {<<>>, <<CondUS>>},
      groupBy : {<<>>},
      agg : {<<>>, <<Metric(None, "sum", "")>>},
      timeRange : {None},
      sort : {<<>>},
      limit : OptLimits,
      offset : OptOffsets,
      isServerPagination : BOOLEAN,
      visualization : {None, Some("table")},
      selectedFields : {<<>>},
      granularity : {None} ]

\* DatabaseConnectorFactory.create_connector (database/connector_factory.py):
\* a driver for postgres and clickhouse, None for every other type.
CreateConnector(type) ==
    IF type \in {"postgres", "clickhouse"}
    THEN Some([type |-> type, pool |-> FALSE])
    ELSE None

\* connector.get_dialect()
GetDialect(c) == IF c.type = "postgres" THEN "postgresql" ELSE c.type

\* The column_info a driver returns with n rows: dicts from postgres,
\* ColumnInfo objects (none for an empty result) from clickhouse.
ColumnInfoOf(c, n) ==
    IF c.type = "postgres" THEN <<[kind |-> "dict", name |-> "id", type |-> "int4"]>>
    ELSE IF n > 0 THEN <<[kind |-> "ColumnInfo", name |-> "id", type |-> "int"]>>
    ELSE <<>>

\* The loop col["name"], col["type"] over column_info: subscripting a
\* ColumnInfo object raises TypeError.
ConvertColumns(column_info) ==
    IF \E i \in 1..Len(column_info) : column_info[i].kind # "dict"
    THEN Raise("'ColumnInfo' object is not subscriptable")
    ELSE Ok([i \in 1..Len(column_info) |->
                [name |-> column_info[i].name, type |-> column_info[i].type]])

\* The QueryResult of the success path.
SuccessResult(columns, results, execution_time, s) ==
    [columns |-> columns, data |-> results, rowCount |-> Len(results),
     totalCount |-> None, executionTime |-> execution_time, sql |-> s,
     error |-> None, hasMore |-> FALSE]

\* The except handler's QueryResult with an empty SQL whatever was generated.
ErrorResultNoSql(sqlLocal, msg) ==
    [columns |-> <<>>, data |-> <<>>, rowCount |-> 0,
     totalCount |-> None, executionTime |-> 0, sql |-> "",
     error |-> Some(msg), hasMore |-> FALSE]

\* The except handler's QueryResult: sql if "sql" in locals() else "".
ErrorResult(sqlLocal, msg) ==
    [columns |-> <<>>, data |-> <<>>, rowCount |-> 0,
     totalCount |-> None, executionTime |-> 0,
     sql |-> IF IsNone(sqlLocal) THEN "" ELSE Val(sqlLocal),
     error |-> Some(msg), hasMore |-> FALSE]

QInit ==
    /\ CIdle
    /\ DIdle
    /\ qconn \in ConnectionTypes
    /\ qquery \in {Some(q) : q \in ServiceQueries}
    /\ qpc = "create"
    /\ connector = None
    /\ calls = <<>>
    /\ sql = None
    /\ exc = None
    /\ qresult = None
    /\ http = None
    /\ TIdle
    /\ MIdle
    /\ BIdle
    /\ LIdle
    /\ HIdle

\* An exception raised inside the try block reaches the except clause.
Throw(at, msg) ==
    /\ exc' = Some([at |-> at, msg |-> msg])
    /\ qpc' = "except"

\* connector = await create_connector(connection); if not connector: raise
QCreateConnector ==
    /\ qpc = "create"
    /\ connector' = CreateConnector(qconn)
    /\ IF IsNone(CreateConnector(qconn))
       THEN Throw("create", "Unsupported database type: " \o qconn)
       ELSE qpc' = "connect" /\ UNCHANGED exc
    /\ UNCHANGED <<http, qconn, qquery, calls, sql, qresult, tvars, mvars, cvars, dvars, bvars, lvars, hvars>>

\* await connector.connect(): the pool is built, or the driver raises.
QConnect ==
    /\ qpc = "connect"
    /\ calls' = Append(calls, [op |-> "connect", sql |-> ""])
    /\ \E ok \in BOOLEAN :
          IF ok
          THEN /\ connector' = Some([Val(connector) EXCEPT !.pool = TRUE])
               /\ qpc' = "translate"
               /\ UNCHANGED exc
          ELSE /\ Throw("connect", "connection refused")
               /\ UNCHANGED connector
    /\ UNCHANGED <<http, qconn, qquery, sql, qresult, tvars, mvars, cvars, dvars, bvars, lvars, hvars>>

\* translator = SQLTranslator(connector.get_dialect())
\* sql = translator.translate(query_model)
QTranslate ==
    /\ qpc = "translate"
    /\ LET res == Translate(GetDialect(Val(connector)), Val(qquery))
       IN  IF res.ok
           THEN sql' = Some(res.v) /\ qpc' = "execute" /\ UNCHANGED exc
           ELSE Throw("translate", res.err) /\ UNCHANGED sql
    /\ qquery' = Some(QueryAfterTranslate(GetDialect(Val(connector)), Val(qquery)))
    /\ UNCHANGED <<http, qconn, connector, calls, qresult, tvars, mvars, cvars, dvars, bvars, lvars, hvars>>

\* results, column_info, execution_time = await connector.execute_query(sql),
\* then the column conversion and the QueryResult of the success path.
QExecute ==
    /\ qpc = "execute"
    /\ calls' = Append(calls, [op |-> "execute_query", sql |-> Val(sql)])
    /\ \E ok \in BOOLEAN, n \in 0..MaxRows :
          IF ~ok
          THEN Throw("execute", "Test error") /\ UNCHANGED qresult
          ELSE LET columns == ConvertColumns(ColumnInfoOf(Val(connector), n))
               IN  IF ~columns.ok
                   THEN Throw("columns", columns.err) /\ UNCHANGED qresult
                   ELSE /\ qresult' = Some(SuccessResult(columns.v, [i \in 1..n |-> i],
                                                         1, Val(sql)))
                        /\ qpc' = "done"
                        /\ UNCHANGED exc
    /\ UNCHANGED <<http, qconn, qquery, connector, sql, tvars, mvars, cvars, dvars, bvars, lvars, hvars>>

\* An except handler that sends a failed statement to the driver again.
QExceptRetry ==
    /\ qpc = "except"
    /\ IF Val(exc).at = "execute" /\ Len(calls) < 3
       THEN /\ qpc' = "execute"
            /\ exc' = None
            /\ UNCHANGED qresult
       ELSE /\ qresult' = Some(ErrorResult(sql, Val(exc).msg))
            /\ qpc' = "done"
            /\ UNCHANGED exc
    /\ UNCHANGED <<http, qconn, qquery, connector, calls, sql, tvars, mvars, cvars, dvars, bvars, lvars, hvars>>

\* except Exception as e: return QueryResult(... error=str(e) ...)
QExcept ==
    /\ qpc = "except"
    /\ qresult' = Some(ErrorResult(sql, Val(exc).msg))
    /\ qpc' = "done"
    /\ UNCHANGED <<http, qconn, qquery, connector, calls, sql, exc, tvars, mvars, cvars, dvars, bvars, lvars, hvars>>

\* routers/query.py execute_query, around the service call: what the
\* service returns is the body of a 200 response, what it raises becomes
\* HTTPException 500.
RouterResponse(outcome) ==
    IF outcome.ok
    THEN [status |-> 200, body |-> Some(outcome.v), detail |-> ""]
    ELSE [status |-> 500, body |-> None,
          detail |-> "Failed to execute query: " \o outcome.err]

\* result = await query_service.execute_query(...); return result
RExecuteQuery ==
    /\ qpc = "done"
    /\ http = None
    /\ http' = Some(RouterResponse(Ok(Val(qresult))))
    /\ UNCHANGED <<qconn, qquery, qpc, connector, calls, sql, exc, qresult,
                   tvars, mvars, cvars, dvars, bvars, lvars, hvars>>

QNext ==
    \/ QCreateConnector
    \/ QConnect
    \/ QTranslate
    \/ QExecute
    \/ QExcept
    \/ RExecuteQuery

SpecQuery == QInit /\ [][QNext]_vars

\* ------------------------------------------------------------------------
\* Properties of QueryService.execute_query
\* ------------------------------------------------------------------------

\* The driver has received a call of the operation.
Called(op) == \E i \in 1..Len(calls) : calls[i].op = op

\* C1: whenever execute_query has returned and a connector had been created,
\* the connector's close() has been invoked, on the success path and on
\* every failure path.
C1_ConnectorClosed ==
    (qpc = "done" /\ ~IsNone(connector)) => Called("close")

\* C2: when the translator or the driver's execute_query fails,
\* execute_query returns (it does not raise) a QueryResult whose error is
\* the failure message, with no data, rowCount 0 and the SQL generated
\* before the failure: the statement sent to the driver when the driver
\* failed, the empty string when the translator failed.
C2_ErrorEnvelope ==
    (qpc = "done" /\ ~IsNone(exc) /\ Val(exc).at \in {"translate", "execute"})
        => /\ ~IsNone(qresult)
           /\ Val(qresult).error = Some(Val(exc).msg)
           /\ Val(qresult).data = <<>>
           /\ Val(qresult).rowCount = 0
           /\ Val(qresult).sql = IF Val(exc).at = "execute"
                                 THEN calls[Len(calls)].sql
                                 ELSE ""

\* C2 witness: the driver's execute_query failed on a statement, and
\* execute_query has returned.
C2_Witness ==
    /\ qpc = "done"
    /\ ~IsNone(exc)
    /\ Val(exc).at = "execute"
    /\ calls[Len(calls)].op = "execute_query"
    /\ calls[Len(calls)].sql # ""

\* C3: for a query with isServerPagination that execute_query answers
\* without error, the driver has run the COUNT query (translate_count)
\* before the main query, totalCount is set, and
\* hasMore = (offset + len(rows) < totalCount).
C3_CountBeforeMain ==
    (/\ qpc = "done"
     /\ ~IsNone(qresult)
     /\ IsNone(Val(qresult).error)
     /\ Val(qquery).isServerPagination)
        => /\ \E i, j \in 1..Len(calls) :
                 /\ i < j
                 /\ calls[i].op = "execute_query"
                 /\ calls[i].sql
                      = TranslateCount(GetDialect(Val(connector)), Val(qquery)).v
                 /\ calls[j].op = "execute_query"
                 /\ calls[j].sql = Val(qresult).sql
           /\ ~IsNone(Val(qresult).totalCount)
           /\ Val(qresult).hasMore
                = (Val(Val(qquery).offset) + Len(Val(qresult).data)
                     < Val(Val(qresult).totalCount))

\* ------------------------------------------------------------------------
\* services/metadata_service.py : MetadataService
\* ------------------------------------------------------------------------

\* The table ids the callers ask about: a table of the database and one that
\* is not.
TableIds == {"t1", "t2"}

\* connection.type of each connection.
ConnType(c) ==
    CASE c = "pg" -> "postgres"
      [] c = "ch" -> "clickhouse"
      [] OTHER -> "bigquery"

\* models.metadata.TableMetadata as a driver builds it, tagged with the
\* get_metadata call it comes from.
TableMetadata(name, n) ==
    [name |-> name, displayName |-> None, description |-> None,
     category |-> None, explorable |-> TRUE, refreshedAt |-> None, ext |-> n]

\* What the driver's n-th get_metadata call returns: (tables, columns,
\* relationships), every element tagged with the call it comes from.
Extraction(n) ==
    [tables |-> <<TableMetadata("t1", n), TableMetadata("t3", n)>>,
     columns |-> <<[name |-> "id", tableName |-> "t1", ext |-> n],
                   [name |-> "t1_id", tableName |-> "t3", ext |-> n]>>,
     relationships |-> <<[sourceTable |-> "t3", targetTable |-> "t1", ext |-> n]>>]

\* for table in tables: table.refreshedAt = datetime.now()
Stamp(tables) ==
    [i \in 1..Len(tables) |-> [tables[i] EXCEPT !.refreshedAt = Some("now")]]

\* A store that writes the tables and leaves the entry's other keys as they
\* were.
StoreMetadataTablesOnly(m, c, x) ==
    [m EXCEPT ![c] =
        Some([tables |-> Some(Stamp(x.tables)),
              columns |-> IF IsNone(m[c]) THEN None ELSE Val(m[c]).columns,
              relationships |-> IF IsNone(m[c]) THEN None ELSE Val(m[c]).relationships])]

\* self.metadata[connection_id] = {"tables": ..., "columns": ...,
\* "relationships": ...}: the whole entry in one assignment. A key of the
\* entry is None when the dict does not have it.
StoreMetadata(m, c, x) ==
    [m EXCEPT ![c] =
        Some([tables |-> Some(Stamp(x.tables)),
              columns |-> Some(x.columns),
              relationships |-> Some(x.relationships)])]

\* The cache key each read looks up.
KeyOf(op) ==
    CASE op = "get_tables" -> "tables"
      [] op = "get_table" -> "tables"
      [] op = "get_columns" -> "columns"
      [] OTHER -> "relationships"

\* A cache test that never finds an entry.
CacheHasNever(m, c, key) == FALSE

\* connection_id in self.metadata and key in self.metadata[connection_id]
CacheHas(m, c, key) == ~IsNone(m[c]) /\ ~IsNone(Val(m[c])[key])

\* get_table's loop over the tables: the first table named table_id, or
\* None.
FindTable(tables, table_id) ==
    LET found == SelectSeq(tables, LAMBDA table : table.name = table_id)
    IN IF found = <<>> THEN None ELSE Some(found[1])

\* What a read returns from the cache: the list under its key (the columns
\* filtered by tableName, get_table's table picked from the tables), or []
\* when the key is not there (for get_table: None, no table in []).
ReadValue(m, op, c, arg) ==
    IF ~CacheHas(m, c, KeyOf(op)) THEN <<>>
    ELSE IF op = "get_columns"
    THEN SelectSeq(Val(Val(m[c]).columns), LAMBDA col : col.tableName = arg)
    ELSE IF op = "get_table"
    THEN FindTable(Val(Val(m[c]).tables), arg)
    ELSE Val(Val(m[c])[KeyOf(op)])

\* A caller entering operation op; hadEntry notes whether the cache holds
\* an entry of the connection at that moment.
NewCall(op, c, arg) ==
    [IdleTask EXCEPT !.op = op, !.conn = c, !.arg = arg,
                     !.hadEntry = ~IsNone(metadata[c])]

\* Call t is made once the calls before it have been made.
CanStart(t) ==
    /\ task[t].pc = "idle"
    /\ t > 1 => task[t - 1].pc # "idle"

\* The operation returns v to its caller; its connector is gone with its
\* frame.
Returned(tk, v) ==
    [tk EXCEPT !.pc = "done", !.ext = 0, !.pool = FALSE, !.pending = None,
               !.result = Some([kind |-> "returned", value |-> v])]

\* The operation raises to its caller (the reads log and re-raise).
Raised(tk, msg) ==
    [tk EXCEPT !.pc = "done", !.ext = 0, !.pool = FALSE, !.pending = None,
               !.result = Some([kind |-> "raised", value |-> msg])]

\* update_table_metadata: the fields of the table the patch sets.
ApplyPatch(table, patch) ==
    [table EXCEPT
        !.displayName = IF IsNone(patch.displayName) THEN @ ELSE patch.displayName,
        !.description = IF IsNone(patch.description) THEN @ ELSE patch.description,
        !.category = IF IsNone(patch.category) THEN @ ELSE patch.category,
        !.explorable = IF IsNone(patch.explorable) THEN @ ELSE Val(patch.explorable)]

\* update_table_metadata after its get_table: the table get_table found is
\* patched in place, and the first cached table of that name is set to it.
PatchedTables(tables, table_id, patch) ==
    LET first == CHOOSE i \in 1..Len(tables) :
                     /\ tables[i].name = table_id
                     /\ \A j \in 1..(i - 1) : tables[j].name # table_id
    IN [tables EXCEPT ![first] = ApplyPatch(tables[first], patch)]

\* The cache after update_table_metadata has patched the table (as it is
\* when get_table finds no table).
PatchedMetadata(m, c, table_id, patch) ==
    IF IsNone(ReadValue(m, "get_table", c, table_id)) THEN m
    ELSE [m EXCEPT ![c] =
             Some([Val(m[c]) EXCEPT !.tables =
                      Some(PatchedTables(Val(Val(m[c]).tables), table_id, patch))])]

\* What update_table_metadata returns: None, or the patched table.
UpdateValue(m, c, table_id, patch) ==
    LET table == ReadValue(m, "get_table", c, table_id)
    IN IF IsNone(table) THEN None ELSE Some(ApplyPatch(Val(table), patch))

\* refresh_metadata returned normally: a read answers from the cache,
\* update_table_metadata goes on with the table it looked up,
\* refresh_metadata itself returns None.
AfterRefresh(m, tk) ==
    IF tk.op = "refresh_metadata" THEN Returned(tk, <<>>)
    ELSE IF tk.op = "update_table_metadata"
    THEN Returned(tk, UpdateValue(m, tk.conn, tk.arg, tk.patch))
    ELSE Returned(tk, ReadValue(m, tk.op, tk.conn, tk.arg))

\* The cache when refresh_metadata has returned normally to its caller.
MetadataAfterRefresh(m, tk) ==
    IF tk.op = "update_table_metadata"
    THEN PatchedMetadata(m, tk.conn, tk.arg, tk.patch)
    ELSE m

\* The head of refresh_metadata up to its first suspension: the factory
\* builds the driver (ValueError for an unsupported type), then
\* connector.get_metadata() is awaited.
BeginRefresh(t, tk) ==
    IF IsNone(CreateConnector(ConnType(tk.conn)))
    THEN /\ task' = [task EXCEPT ![t] =
                        Raised(tk, "Unsupported database type: " \o ConnType(tk.conn))]
         /\ UNCHANGED nextExt
    ELSE /\ nextExt' = nextExt + 1
         /\ task' = [task EXCEPT ![t] = [tk EXCEPT !.pc = "get_metadata",
                                                   !.ext = nextExt + 1,
                                                   !.driverCalls = @ + 1]]

\* A cache-first read: answer from the cache, else refresh first.
StartRead(t, op, c, arg) ==
    /\ CanStart(t)
    /\ IF CacheHas(metadata, c, KeyOf(op))
       THEN /\ task' = [task EXCEPT ![t] =
                           Returned(NewCall(op, c, arg), ReadValue(metadata, op, c, arg))]
            /\ UNCHANGED nextExt
       ELSE BeginRefresh(t, NewCall(op, c, arg))
    /\ UNCHANGED <<metadata, lastReturned, tvars, qvars, cvars, dvars, bvars, lvars, hvars>>

\* get_tables(connection)
MGetTables(t, c) == StartRead(t, "get_tables", c, "")

\* get_table(connection, table_id): get_tables, then the table by name
MGetTable(t, c, table_id) == StartRead(t, "get_table", c, table_id)

\* get_columns(connection, table_id)
MGetColumns(t, c, table_id) == StartRead(t, "get_columns", c, table_id)

\* get_relationships(connection)
MGetRelationships(t, c) == StartRead(t, "get_relationships", c, "")

\* refresh_metadata(connection), called directly
MRefresh(t, c) ==
    /\ CanStart(t)
    /\ BeginRefresh(t, NewCall("refresh_metadata", c, ""))
    /\ UNCHANGED <<metadata, lastReturned, tvars, qvars, cvars, dvars, bvars, lvars, hvars>>

\* The patches update_table_metadata is called with: nothing, one field,
\* the other three.
PatchChoices ==
    {NoPatch,
     [NoPatch EXCEPT !.displayName = Some("Orders")],
     [NoPatch EXCEPT !.description = Some("all orders"),
                     !.category = Some("sales"),
                     !.explorable = Some(FALSE)]}

\* update_table_metadata(connection, table_id, metadata_update): get_table
\* (cache-first, refreshing on a miss), then the patch.
MUpdateTableMetadata(t, c, table_id, patch) ==
    /\ CanStart(t)
    /\ LET tk == [NewCall("update_table_metadata", c, table_id) EXCEPT !.patch = patch]
       IN IF CacheHas(metadata, c, "tables")
          THEN /\ task' = [task EXCEPT ![t] =
                              Returned(tk, UpdateValue(metadata, c, table_id, patch))]
               /\ metadata' = PatchedMetadata(metadata, c, table_id, patch)
               /\ UNCHANGED nextExt
          ELSE /\ BeginRefresh(t, tk)
               /\ UNCHANGED metadata
    /\ UNCHANGED <<lastReturned, tvars, qvars, cvars, dvars, bvars, lvars, hvars>>

\* connector.get_metadata() returns: the tables are stamped, the entry is
\* stored, and connector.close() is awaited in the finally clause.
MGetMetadataReturns(t) ==
    /\ task[t].pc = "get_metadata"
    /\ metadata' = StoreMetadata(metadata, task[t].conn, Extraction(task[t].ext))
    /\ task' = [task EXCEPT ![t] = [@ EXCEPT !.pc = "close", !.pool = TRUE, !.wrote = TRUE]]
    /\ lastReturned' = [lastReturned EXCEPT ![task[t].conn] =
                            IF task[t].ext > @ THEN task[t].ext ELSE @]
    /\ UNCHANGED <<nextExt, tvars, qvars, cvars, dvars, bvars, lvars, hvars>>

\* connector.get_metadata() raises: in its own connect() (no pool was built,
\* close() has nothing to do and the error goes on), or in a query (the
\* pool is open, close() is awaited with the error pending).
MGetMetadataRaises(t) ==
    /\ task[t].pc = "get_metadata"
    /\ \E at \in {"connect", "query"} :
          task' = [task EXCEPT ![t] =
                      IF at = "connect"
                      THEN Raised(@, "connection refused")
                      ELSE [@ EXCEPT !.pc = "close", !.pool = TRUE,
                                     !.pending = Some("metadata query failed")]]
    /\ UNCHANGED <<metadata, nextExt, lastReturned, tvars, qvars, cvars, dvars, bvars, lvars, hvars>>

\* connector.close() returns (the clickhouse driver also swallows what its
\* session raises): a pending error goes on, else refresh_metadata returns.
MCloseReturns(t) ==
    /\ task[t].pc = "close"
    /\ task' = [task EXCEPT ![t] =
                   IF IsNone(@.pending)
                   THEN AfterRefresh(metadata, @)
                   ELSE Raised(@, Val(@.pending))]
    /\ metadata' = IF IsNone(task[t].pending)
                   THEN MetadataAfterRefresh(metadata, task[t])
                   ELSE metadata
    /\ UNCHANGED <<nextExt, lastReturned, tvars, qvars, cvars, dvars, bvars, lvars, hvars>>

\* PostgresConnector.close(): await self.pool.close() raises, nothing
\* catches it, and the finally clause's error is what refresh_metadata
\* raises.
MCloseRaises(t) ==
    /\ task[t].pc = "close"
    /\ ConnType(task[t].conn) = "postgres"
    /\ task[t].pool
    /\ task' = [task EXCEPT ![t] = Raised(@, "pool close failed")]
    /\ UNCHANGED <<metadata, nextExt, lastReturned, tvars, qvars, cvars, dvars, bvars, lvars, hvars>>

MInit == MIdle /\ TIdle /\ QIdle /\ CIdle /\ DIdle /\ BIdle /\ LIdle /\ HIdle

MNext ==
    \/ \E t \in Tasks, c \in ConnIds : MGetTables(t, c)
    \/ \E t \in Tasks, c \in ConnIds, table_id \in TableIds : MGetTable(t, c, table_id)
    \/ \E t \in Tasks, c \in ConnIds, table_id \in TableIds : MGetColumns(t, c, table_id)
    \/ \E t \in Tasks, c \in ConnIds : MGetRelationships(t, c)
    \/ \E t \in Tasks, c \in ConnIds : MRefresh(t, c)
    \/ \E t \in Tasks : MGetMetadataReturns(t)
    \/ \E t \in Tasks : MGetMetadataRaises(t)
    \/ \E t \in Tasks : MCloseReturns(t)
    \/ \E t \in Tasks : MCloseRaises(t)

SpecMetadata == MInit /\ [][MNext]_vars

\* The metadata service under update_table_metadata and refresh_metadata
\* calls.
MUNext ==
    \/ \E t \in Tasks, c \in ConnIds, table_id \in TableIds, patch \in PatchChoices :
          MUpdateTableMetadata(t, c, table_id, patch)
    \/ \E t \in Tasks, c \in ConnIds : MRefresh(t, c)
    \/ \E t \in Tasks : MGetMetadataReturns(t)
    \/ \E t \in Tasks : MGetMetadataRaises(t)
    \/ \E t \in Tasks : MCloseReturns(t)
    \/ \E t \in Tasks : MCloseRaises(t)

SpecMetadataUpdate == MInit /\ [][MUNext]_vars

\* ------------------------------------------------------------------------
\* Properties of the metadata cache
\* ------------------------------------------------------------------------

\* The tasks inside refresh_metadata for connection c: between the call of
\* the driver's get_metadata and the end of the finally clause.
Refreshing(c) == {t \in Tasks : task[t].conn = c /\ task[t].pc \in {"get_metadata", "close"}}

\* The extractions the parts of a complete entry come from.
EntryExts(e) ==
    {Val(e.tables)[i].ext : i \in 1..Len(Val(e.tables))}
        \cup {Val(e.columns)[i].ext : i \in 1..Len(Val(e.columns))}
        \cup {Val(e.relationships)[i].ext : i \in 1..Len(Val(e.relationships))}

\* An entry with all three keys, all from one get_metadata result.
SingleExtraction(e) ==
    /\ ~IsNone(e.tables)
    /\ ~IsNone(e.columns)
    /\ ~IsNone(e.relationships)
    /\ Cardinality(EntryExts(e)) = 1

\* C8: whenever refresh_metadata(c) ends by raising, that call has not
\* written the cache entry of c (absent stays absent, an older triple stays
\* intact), and the cache never holds a triple whose parts come from
\* different extractions.
C8_FailedRefreshLeavesCache ==
    /\ \A t \in Tasks :
          (~IsNone(task[t].result) /\ Val(task[t].result).kind = "raised")
              => ~task[t].wrote
    /\ \A c \in ConnIds :
          (~IsNone(metadata[c]) /\ ~IsNone(Val(metadata[c]).tables)
              /\ ~IsNone(Val(metadata[c]).columns)
              /\ ~IsNone(Val(metadata[c]).relationships))
              => Cardinality(EntryExts(Val(metadata[c]))) <= 1

\* C9: refreshes are serialized per connection id: at most one refresh of a
\* connection is in progress at any time.
C9_RefreshSerialized ==
    \A c \in ConnIds : Cardinality(Refreshing(c)) <= 1

\* C10: the cache entry of a connection is either absent or holds tables,
\* columns and relationships that all come from one single get_metadata
\* result.
C10_SingleExtraction ==
    \A c \in ConnIds : IsNone(metadata[c]) \/ SingleExtraction(Val(metadata[c]))

\* A reader of a connection has been answered from the entry its own
\* refresh stored while another refresh of the same connection is still
\* running.
C10_Witness ==
    \E c \in ConnIds, t1, t2 \in Tasks :
        /\ t1 # t2
        /\ ~IsNone(metadata[c])
        /\ task[t1].conn = c /\ task[t1].pc = "get_metadata"
        /\ task[t2].conn = c /\ task[t2].op = "get_columns"
        /\ ~IsNone(task[t2].result)
        /\ Val(task[t2].result).kind = "returned"
        /\ Val(task[t2].result).value # <<>>

\* C11: once a get_metadata call for c has returned, get_tables(c) answers
\* with exactly the table list of the most recent get_metadata call for c,
\* each table stamped with refreshedAt, also when refreshes of c overlapped.
C11_TablesOfLastCall ==
    \A c \in ConnIds :
        lastReturned[c] > 0
            => ReadValue(metadata, "get_tables", c, "")
                   = Stamp(Extraction(lastReturned[c]).tables)

\* The metadata reads.
ReadOps == {"get_tables", "get_table", "get_columns", "get_relationships"}

\* C12: every metadata read is cache-first: with an entry of the connection
\* in the cache the driver is not invoked at all, and with none the read
\* makes exactly one get_metadata call before it answers.
C12_CacheFirst ==
    \A t \in Tasks :
        task[t].op \in ReadOps =>
            /\ task[t].hadEntry => task[t].driverCalls = 0
            /\ (~task[t].hadEntry /\ ~IsNone(task[t].result)
                    /\ Val(task[t].result).kind = "returned")
                   => task[t].driverCalls = 1

\* One read has answered from a cached entry without a driver call and a
\* get_table that found no entry has answered after its one call.
C12_Witness ==
    \E t1, t2 \in Tasks :
        /\ task[t1].op \in ReadOps /\ task[t1].hadEntry
        /\ ~IsNone(task[t1].result) /\ Val(task[t1].result).kind = "returned"
        /\ Val(task[t1].result).value # <<>>
        /\ task[t1].driverCalls = 0
        /\ task[t2].op = "get_table" /\ ~task[t2].hadEntry
        /\ ~IsNone(task[t2].result) /\ Val(task[t2].result).kind = "returned"
        /\ task[t2].driverCalls = 1

\* Table b is table a with nothing changed but those of displayName,
\* description, category and explorable that the patch sets.
OnlyPatched(a, b, patch) ==
    /\ b.name = a.name
    /\ b.refreshedAt = a.refreshedAt
    /\ b.ext = a.ext
    /\ IsNone(patch.displayName) => b.displayName = a.displayName
    /\ IsNone(patch.description) => b.description = a.description
    /\ IsNone(patch.category) => b.category = a.category
    /\ IsNone(patch.explorable) => b.explorable = a.explorable

\* What a step of update_table_metadata(c, table_id, patch) may change in
\* the cache: the patched fields of the cached table table_id, and nothing
\* at all when the cache has no such table.
UpdateFrame(c, table_id, patch) ==
    IF IsNone(metadata[c])
           \/ \A i \in 1..Len(Val(Val(metadata[c]).tables)) :
                  Val(Val(metadata[c]).tables)[i].name # table_id
    THEN metadata' = metadata
    ELSE /\ \A d \in ConnIds \ {c} : metadata'[d] = metadata[d]
         /\ ~IsNone(metadata'[c])
         /\ Val(metadata'[c]).columns = Val(metadata[c]).columns
         /\ Val(metadata'[c]).relationships = Val(metadata[c]).relationships
         /\ LET old == Val(Val(metadata[c]).tables)
                new == Val(Val(metadata'[c]).tables)
            IN /\ Len(new) = Len(old)
               /\ \A i \in 1..Len(old) :
                      IF old[i].name = table_id
                      THEN OnlyPatched(old[i], new[i], patch)
                      ELSE new[i] = old[i]

\* C13: update_table_metadata(c, t, patch) changes only the patched ones of
\* displayName, description, category and explorable of the cached table t;
\* every other field, table, column, relationship and connection stays as
\* it is, and with t not in the cache it returns None and changes nothing.
C13_UpdateChangesOnlyPatch ==
    [][\A t \in Tasks :
          (task'[t] # task[t] /\ task'[t].op = "update_table_metadata")
              => /\ UpdateFrame(task'[t].conn, task'[t].arg, task'[t].patch)
                 /\ (~task'[t].hadEntry /\ ~IsNone(task'[t].result)
                        /\ Val(task'[t].result).kind = "returned")
                       => IsNone(Val(task'[t].result).value)]_vars

\* ------------------------------------------------------------------------
\* services/connection_service.py : ConnectionService
\* ------------------------------------------------------------------------

\* The most session connections the callers create.
MaxSession == 2

\* The connection the config file defines; its id is predef_<i>_<type>.
PredefinedConnection == [id |-> "predef_0_postgres", name |-> "Warehouse"]

\* What _load_predefined_connections leaves: the config's connections, or
\* nothing when the file is missing or unreadable.
PredefinedChoices == {<<>>, <<PredefinedConnection>>}

\* The connections the callers pass: models.connection.Connection, by id and
\* name.
Connections ==
    [id : {"predef_0_postgres", "conn_a", "conn_b"}, name : {"A", "B"}]

ConnectionIds == {c.id : c \in Connections}

\* get_connection: the first predefined connection of that id, else the
\* first session connection of that id, else None.
GetConnection(predefined, session, connection_id) ==
    LET found == SelectSeq(predefined \o session,
                           LAMBDA connection : connection.id = connection_id)
    IN IF found = <<>> THEN None ELSE Some(found[1])

\* create_connection: the connection is appended to the session list.
CreateConnection(session, connection) == Append(session, connection)

\* Whether some connection of the list has the id.
HasId(connections, connection_id) ==
    \E i \in 1..Len(connections) : connections[i].id = connection_id

\* The first index of the list whose connection has the id.
FirstWithId(connections, connection_id) ==
    CHOOSE i \in 1..Len(connections) :
        /\ connections[i].id = connection_id
        /\ \A j \in 1..(i - 1) : connections[j].id # connection_id

\* An update_connection that does not look at the predefined connections.
UpdateSessionUnguarded(predefined, session, connection) ==
    IF HasId(session, connection.id)
    THEN [session EXCEPT ![FirstWithId(session, connection.id)] = connection]
    ELSE session

\* update_connection, the session list it leaves: untouched for a
\* predefined id, else the first session connection of that id replaced.
UpdateSession(predefined, session, connection) ==
    IF HasId(predefined, connection.id) THEN session
    ELSE IF HasId(session, connection.id)
    THEN [session EXCEPT ![FirstWithId(session, connection.id)] = connection]
    ELSE session

\* update_connection, what it returns: the predefined connection of that
\* id, else its argument.
UpdateResult(predefined, connection) ==
    IF HasId(predefined, connection.id)
    THEN predefined[FirstWithId(predefined, connection.id)]
    ELSE connection

\* delete_connection, the session list it leaves: untouched for a predefined
\* id, else without the connections of that id.
DeleteSession(predefined, session, connection_id) ==
    IF HasId(predefined, connection_id) THEN session
    ELSE SelectSeq(session, LAMBDA conn : conn.id # connection_id)

\* ConnectionService.__init__
CInit ==
    /\ predefined_connections \in PredefinedChoices
    /\ loaded = predefined_connections
    /\ session_connections = <<>>
    /\ clast = None
    /\ TIdle /\ QIdle /\ MIdle /\ DIdle
    /\ BIdle
    /\ LIdle
    /\ HIdle

\* create_connection(connection)
CCreate(connection) ==
    /\ Len(session_connections) < MaxSession
    /\ session_connections' = CreateConnection(session_connections, connection)
    /\ clast' = Some([op |-> "create", id |-> connection.id, arg |-> Some(connection),
                      result |-> Some(connection)])
    /\ UNCHANGED <<predefined_connections, loaded, tvars, qvars, mvars, dvars, bvars, lvars, hvars>>

\* update_connection(connection)
CUpdate(connection) ==
    /\ session_connections' =
           UpdateSession(predefined_connections, session_connections, connection)
    /\ clast' = Some([op |-> "update", id |-> connection.id, arg |-> Some(connection),
                      result |-> Some(UpdateResult(predefined_connections, connection))])
    /\ UNCHANGED <<predefined_connections, loaded, tvars, qvars, mvars, dvars, bvars, lvars, hvars>>

\* delete_connection(connection_id)
CDelete(connection_id) ==
    /\ session_connections' =
           DeleteSession(predefined_connections, session_connections, connection_id)
    /\ clast' = Some([op |-> "delete", id |-> connection_id, arg |-> None,
                      result |-> None])
    /\ UNCHANGED <<predefined_connections, loaded, tvars, qvars, mvars, dvars, bvars, lvars, hvars>>

\* get_connection(connection_id)
CGet(connection_id) ==
    /\ clast' = Some([op |-> "get", id |-> connection_id, arg |-> None,
                      result |-> GetConnection(predefined_connections,
                                               session_connections, connection_id)])
    /\ UNCHANGED <<predefined_connections, session_connections, loaded,
                   tvars, qvars, mvars, dvars, bvars, lvars, hvars>>

CNext ==
    \/ \E connection \in Connections : CCreate(connection)
    \/ \E connection \in Connections : CUpdate(connection)
    \/ \E connection_id \in ConnectionIds : CDelete(connection_id)
    \/ \E connection_id \in ConnectionIds : CGet(connection_id)

SpecConnections == CInit /\ [][CNext]_vars

\* C14: after create_connection(c), get_connection(c.id) returns c, and
\* after delete_connection(id), get_connection(id) returns None, whatever
\* was created, updated or deleted before.
C14_CreateGetDelete ==
    [][(clast # None /\ Val(clast').op = "get" /\ Val(clast').id = Val(clast).id)
          => /\ Val(clast).op = "create" => Val(clast').result = Val(clast).arg
             /\ Val(clast).op = "delete" => Val(clast').result = None]_vars

\* C15: predefined connections are read-only: the predefined list stays the
\* list loaded at start whatever is created, updated or deleted, and
\* update_connection / delete_connection on a predefined id leave the
\* session connections unchanged as well.
C15_PredefinedReadOnly ==
    /\ [](predefined_connections = loaded)
    /\ [][(Val(clast').op \in {"update", "delete"}
              /\ HasId(predefined_connections, Val(clast').id))
             => session_connections' = session_connections]_vars

\* update_connection was called with a predefined id while a session
\* connection of the same id, with another name, was there to be replaced.
C15_Witness ==
    /\ clast # None
    /\ Val(clast).op = "update"
    /\ HasId(predefined_connections, Val(clast).id)
    /\ HasId(session_connections, Val(clast).id)
    /\ \A i \in 1..Len(session_connections) :
           session_connections[i].id = Val(clast).id
               => session_connections[i] # Val(Val(clast).arg)

\* ------------------------------------------------------------------------
\* The drivers: connect and close of each variant
\* ------------------------------------------------------------------------

\* The most calls made on one driver.
MaxDriverCalls == 3

\* The driver variants.
DriverKinds == {"postgres", "clickhouse", "bigquery", "snowflake"}

\* Where the backend makes connect() fail: nowhere, before anything is
\* built, or after the first part (the ClickHouse session) is built.
ConnectFailures == {"none", "early", "late"}

\* The outcome of a driver call: the driver it leaves and whether it raised.
DriverOutcome(d, raised) == [driver |-> d, raised |-> raised]

\* connect() of each variant.
Connect(kind, d, fails) ==
    CASE kind = "postgres" ->
             IF d.pool THEN DriverOutcome(d, FALSE)
             ELSE IF fails # "none" THEN DriverOutcome(d, TRUE)
             ELSE DriverOutcome([d EXCEPT !.pool = TRUE], FALSE)
      [] kind = "clickhouse" ->
             IF d.client THEN DriverOutcome(d, FALSE)
             ELSE IF fails = "early" THEN DriverOutcome(d, TRUE)
             ELSE IF fails = "late"
             THEN DriverOutcome([d EXCEPT !.session = TRUE], TRUE)
             ELSE DriverOutcome([d EXCEPT !.session = TRUE, !.client = TRUE], FALSE)
      [] OTHER ->
             IF d.client THEN DriverOutcome(d, FALSE)
             ELSE IF fails # "none" THEN DriverOutcome(d, TRUE)
             ELSE DriverOutcome([d EXCEPT !.client = TRUE], FALSE)

\* A close() that tests the client where the ClickHouse driver tests the
\* session.
CloseOnClient(kind, d, backend_fails) ==
    CASE kind = "postgres" ->
             IF ~d.pool THEN DriverOutcome(d, FALSE)
             ELSE IF backend_fails THEN DriverOutcome(d, TRUE)
             ELSE DriverOutcome([d EXCEPT !.pool = FALSE], FALSE)
      [] kind = "clickhouse" ->
             IF ~d.client THEN DriverOutcome(d, FALSE)
             ELSE DriverOutcome([d EXCEPT !.session = FALSE, !.client = FALSE], FALSE)
      [] OTHER ->
             IF ~d.client THEN DriverOutcome(d, FALSE)
             ELSE DriverOutcome([d EXCEPT !.client = FALSE], FALSE)

\* close() of each variant; backend_fails: the backend client's own close
\* raises. PostgresConnector lets it through and keeps its pool; the others
\* catch it and clear their references in a finally clause.
Close(kind, d, backend_fails) ==
    CASE kind = "postgres" ->
             IF ~d.pool THEN DriverOutcome(d, FALSE)
             ELSE IF backend_fails THEN DriverOutcome(d, TRUE)
             ELSE DriverOutcome([d EXCEPT !.pool = FALSE], FALSE)
      [] kind = "clickhouse" ->
             IF ~d.session THEN DriverOutcome(d, FALSE)
             ELSE DriverOutcome([d EXCEPT !.session = FALSE, !.client = FALSE], FALSE)
      [] OTHER ->
             IF ~d.client THEN DriverOutcome(d, FALSE)
             ELSE DriverOutcome([d EXCEPT !.client = FALSE], FALSE)

\* The outcome of execute_query: the driver it leaves, whether it raised,
\* and the number of rows it returned (None when it raised).
ExecuteOutcome(d, raised, rows) == [driver |-> d, raised |-> raised, rows |-> rows]

\* execute_query(sql) of each variant for a statement the backend runs
\* successfully with the given number of result rows: the driver connects
\* first when it has to; BigQueryConnector then logs results[0].
Execute(kind, d, fails, rows) ==
    LET connected == Connect(kind, d, fails)
    IN  IF connected.raised THEN ExecuteOutcome(connected.driver, TRUE, None)
        ELSE IF kind = "bigquery" /\ rows = 0
        THEN ExecuteOutcome(connected.driver, TRUE, None)
        ELSE ExecuteOutcome(connected.driver, FALSE, Some(rows))

\* The factory has built a driver of some variant.
DInit ==
    /\ dkind \in DriverKinds
    /\ driver = NewDriver
    /\ dphase = "new"
    /\ dcalls = <<>>
    /\ TIdle /\ QIdle /\ MIdle /\ CIdle
    /\ BIdle
    /\ LIdle
    /\ HIdle

\* await connector.connect()
DConnect(fails) ==
    LET out == Connect(dkind, driver, fails)
    IN /\ Len(dcalls) < MaxDriverCalls
       /\ driver' = out.driver
       /\ dphase' = IF out.raised THEN "failed"
                    ELSE IF out.driver = driver THEN dphase ELSE "connected"
       /\ dcalls' = Append(dcalls, [op |-> "connect", from |-> dphase,
                                     raised |-> out.raised,
                                     backend_fails |-> fails # "none"])
       /\ UNCHANGED <<dkind, tvars, qvars, mvars, cvars, bvars, lvars, hvars>>

\* await connector.close()
DClose(backend_fails) ==
    LET out == Close(dkind, driver, backend_fails)
    IN /\ Len(dcalls) < MaxDriverCalls
       /\ driver' = out.driver
       /\ dphase' = IF out.raised THEN dphase ELSE "closed"
       /\ dcalls' = Append(dcalls, [op |-> "close", from |-> dphase,
                                     raised |-> out.raised,
                                     backend_fails |-> backend_fails])
       /\ UNCHANGED <<dkind, tvars, qvars, mvars, cvars, bvars, lvars, hvars>>

\* await connector.execute_query(sql)
DExecute(fails, rows) ==
    LET out == Execute(dkind, driver, fails, rows)
        connected == Connect(dkind, driver, fails)
    IN /\ Len(dcalls) < MaxDriverCalls
       /\ driver' = out.driver
       /\ dphase' = IF connected.raised THEN "failed"
                    ELSE IF connected.driver = driver THEN dphase ELSE "connected"
       /\ dcalls' = Append(dcalls, [op |-> "execute_query", from |-> dphase,
                                     raised |-> out.raised,
                                     backend_fails |-> connected.raised,
                                     rows |-> rows, returned |-> out.rows])
       /\ UNCHANGED <<dkind, tvars, qvars, mvars, cvars, bvars, lvars, hvars>>

DNext ==
    \/ \E fails \in ConnectFailures : DConnect(fails)
    \/ \E backend_fails \in BOOLEAN : DClose(backend_fails)
    \/ \E fails \in ConnectFailures, rows \in 0..MaxRows : DExecute(fails, rows)

SpecDriver == DInit /\ [][DNext]_vars

\* The driver holds no client, pool or session.
HoldsNothing == driver = NewDriver

\* The last call made on the driver, if any.
DLast == IF dcalls = <<>> THEN None ELSE Some(dcalls[Len(dcalls)])

\* C16: close() on a driver that was never connected, whose connect() failed
\* half-way, or that was already closed raises nothing and leaves the
\* driver holding no client, pool or session.
C16_CloseIdempotent ==
    (DLast # None /\ Val(DLast).op = "close"
        /\ Val(DLast).from \in {"new", "failed", "closed"})
        => (~Val(DLast).raised /\ HoldsNothing)

\* close() has run on a ClickHouse driver whose connect() had failed with
\* the session built and the client not, the session's close failing too.
C16_Witness ==
    /\ dkind = "clickhouse"
    /\ Len(dcalls) >= 2
    /\ dcalls[Len(dcalls) - 1].op = "connect"
    /\ dcalls[Len(dcalls) - 1].raised
    /\ Val(DLast).op = "close"
    /\ Val(DLast).from = "failed"
    /\ Val(DLast).backend_fails
    /\ HoldsNothing

\* C17: an error of the backend client while a driver is closing is logged
\* and swallowed: close() of every variant returns normally and clears its
\* client/pool reference.
C17_CloseSwallowsErrors ==
    (DLast # None /\ Val(DLast).op = "close")
        => (~Val(DLast).raised /\ HoldsNothing)

\* ------------------------------------------------------------------------
\* Properties of the query request as a whole
\* ------------------------------------------------------------------------

\* C18: when the driver's connect() raises during a query request, the
\* request fails with HTTP 500 and no QueryResult envelope is returned with
\* HTTP 200.
C18_ConnectErrorSurfaces ==
    (~IsNone(http) /\ ~IsNone(exc) /\ Val(exc).at = "connect")
        => /\ Val(http).status = 500
           /\ IsNone(Val(http).body)

\* The connection types the gateway is meant to support.
SupportedTypes == {"postgres", "clickhouse", "bigquery", "snowflake"}

\* C19: the factory of the Query Service builds a driver for each of
\* postgres, clickhouse, bigquery and snowflake, and reports Unsupported (no
\* driver) for every other type and only for those.
C19_FactoryBuildsFourTypes ==
    qpc # "create" =>
        /\ ~IsNone(connector) <=> qconn \in SupportedTypes
        /\ (~IsNone(exc) /\ Val(exc).at = "create") <=> qconn \notin SupportedTypes

\* C20: there is no retry: the driver's execute_query is invoked at most
\* once in one execute_query call, and once it has failed no further call
\* reaches the driver for that request.
C20_NoRetry ==
    /\ Cardinality({i \in 1..Len(calls) : calls[i].op = "execute_query"}) <= 1
    /\ (~IsNone(exc) /\ Val(exc).at = "execute")
           => /\ calls # <<>>
              /\ calls[Len(calls)].op = "execute_query"
       
\* The driver's execute_query has failed and the request has been answered.
C20_Witness ==
    /\ ~IsNone(http)
    /\ ~IsNone(exc)
    /\ Val(exc).at = "execute"
    /\ calls[Len(calls)].op = "execute_query"

\* ------------------------------------------------------------------------
\* The drivers with blocking clients: which thread runs each client call
\* ------------------------------------------------------------------------

\* The most operations called on one driver.
MaxBlockingOps == 3

\* The driver variants whose client library is blocking.
BlockingKinds == {"bigquery", "snowflake"}

\* The operations of a driver.
BlockingOps ==
    {"connect", "test_connection", "get_metadata", "execute_query",
     "get_query_explanation", "close"}

\* A client call made directly in the coroutine: on the event-loop thread.
OnLoop(call) == [call |-> call, thread |-> "loop"]

\* A client call wrapped in self._run_in_executor: on the worker pool.
OnPool(call) == [call |-> call, thread |-> "pool"]

\* The client calls of connect(): none when the client is already there.
ConnectCalls(kind, hasClient) ==
    IF hasClient THEN <<>>
    ELSE IF kind = "bigquery" THEN <<OnLoop("bigquery.Client")>>
    ELSE <<OnPool("snowflake.connector.connect")>>

\* The client calls of one operation, in order; a failing backend (~ok)
\* stops the operation's first call to the backend.
ClientCalls(kind, op, hasClient, ok) ==
    LET viaGetClient == ConnectCalls(kind, hasClient)
        connected == hasClient \/ ok
    IN
    CASE op = "connect" -> viaGetClient
      [] op = "test_connection" ->
             IF kind = "bigquery"
             THEN IF ok
                  THEN <<OnLoop("bigquery.Client"), OnLoop("client.query"),
                         OnLoop("job.result")>>
                  ELSE <<OnLoop("bigquery.Client"), OnLoop("client.query")>>
             ELSE IF ok
                  THEN <<OnLoop("snowflake.connector.connect"),
                         OnLoop("cursor.execute"), OnLoop("cursor.fetchone"),
                         OnLoop("cursor.close"), OnLoop("conn.close")>>
                  ELSE <<OnLoop("snowflake.connector.connect")>>
      [] op = "get_metadata" ->
             IF ~connected THEN viaGetClient
             ELSE IF kind = "bigquery"
             THEN viaGetClient \o <<OnPool("client.list_tables"),
                                    OnPool("client.get_table")>>
             ELSE viaGetClient \o <<OnPool("cursor.execute"),
                                    OnPool("cursor.fetchall")>>
      [] op = "execute_query" ->
             IF ~connected THEN viaGetClient
             ELSE IF kind = "bigquery"
             THEN viaGetClient \o <<OnPool("client.query"), OnPool("job.result")>>
             ELSE viaGetClient \o <<OnPool("cursor.execute"),
                                    OnPool("cursor.fetchall")>>
      [] op = "get_query_explanation" ->
             IF ~connected THEN viaGetClient
             ELSE IF kind = "bigquery"
             THEN viaGetClient \o <<OnPool("client.query"), OnPool("job.result")>>
             ELSE viaGetClient \o <<OnPool("cursor.execute"),
                                    OnPool("cursor.fetchone")>>
      [] op = "close" ->
             IF hasClient THEN <<OnPool("client.close")>> ELSE <<>>

\* self.client after the operation.
ClientAfter(op, hasClient, ok) ==
    CASE op = "test_connection" -> hasClient
      [] op = "close" -> FALSE
      [] OTHER -> hasClient \/ ok

\* The factory has built a driver with a blocking client.
BInit ==
    /\ bkind \in BlockingKinds
    /\ bclient = FALSE
    /\ bops = <<>>
    /\ blog = {}
    /\ TIdle /\ QIdle /\ MIdle /\ CIdle /\ DIdle
    /\ LIdle
    /\ HIdle

\* One operation of the driver, with every client call it makes.
BCall(op, ok) ==
    LET made == ClientCalls(bkind, op, bclient, ok)
    IN /\ Len(bops) < MaxBlockingOps
       /\ bops' = Append(bops, op)
       /\ blog' = blog \cup {[op |-> op, call |-> made[i].call,
                               thread |-> made[i].thread] : i \in 1..Len(made)}
       /\ bclient' = ClientAfter(op, bclient, ok)
       /\ UNCHANGED <<bkind, tvars, qvars, mvars, cvars, dvars, lvars, hvars>>

BNext == \E op \in BlockingOps, ok \in BOOLEAN : BCall(op, ok)

SpecBlocking == BInit /\ [][BNext]_vars

\* C21: in the bigquery and snowflake drivers every blocking client call
\* (building the client in connect, test_connection, metadata, execute,
\* explain, close) runs on the driver's worker pool and never on the
\* event-loop thread.
C21_BlockingCallsOnPool == \A r \in blog : r.thread = "pool"

\* ------------------------------------------------------------------------
\* Properties of the translator: projection, time range, filters, limit
\* ------------------------------------------------------------------------

\* The query names a source table and nothing else that shapes the SELECT.
SourceOnly(q) ==
    /\ ~IsNone(q.source)
    /\ IsNone(q.visualization)
    /\ q.filters = <<>>
    /\ q.groupBy = <<>>
    /\ q.agg = <<>>
    /\ q.selectedFields = <<>>

\* C22: for a query that names only a source table (no visualization, empty
\* filters, groupBy, agg and selectedFields) and keeps the pagination rules,
\* translate succeeds and emits SELECT * and FROM <table>, the table
\* prefixed with public. on postgresql when it has no dot.
C22_SourceOnlyQuery ==
    (~IsNone(tres) /\ SourceOnly(tq) /\ PaginationError(tq) = "")
        => /\ Val(tres).ok
           /\ Val(tres).select = <<>>
           /\ Val(tres).v =
                  "SELECT *\n" \o BuildFrom(tdialect, tq.source).v \o "\n"
                  \o BuildWhere(tdialect, tq.filters, tq.timeRange) \o "\n"
                  \o "\n" \o BuildOrderBy(tq.sort) \o "\n"
                  \o BuildLimit(tq.limit, tq.offset, tq.isServerPagination)
           /\ BuildFrom(tdialect, tq.source).v =
                  (IF tdialect = "postgresql" THEN "FROM public.events"
                   ELSE "FROM events")

\* C23: whenever groupBy and agg contribute nothing to the projection,
\* a successful translate projects exactly the selected fields when there
\* are some, for every visualization type, and * only when there are none.
C23_SelectedFieldsProjected ==
    (~IsNone(tres) /\ Val(tres).ok /\ tq.groupBy = <<>> /\ tq.agg = <<>>)
        => /\ Val(tres).select = Names(tq.selectedFields)
           /\ Val(tres).v =
                  SelectClause(Names(tq.selectedFields), TRUE) \o "\n"
                  \o BuildFrom(tdialect, tq.source).v \o "\n"
                  \o BuildWhere(tdialect, tq.filters, tq.timeRange) \o "\n"
                  \o "\n" \o BuildOrderBy(tq.sort) \o "\n"
                  \o BuildLimit(tq.limit, tq.offset, tq.isServerPagination)

\* C24: translate and translate_count are side-effect-free: after either
\* call, on success or on failure, every field of the query model passed
\* in (each aggregation's column and alias included) has the value it had
\* before the call.
C24_TranslateLeavesQuery == [][tq' = tq]_vars

\* The time range "last 7 days" on the column ts.
Last7Days == Some(TimeRange(Some(TsCol), <<"last", "7", "days">>, None))

\* C25: in each of the four dialects a time range with a column and the
\* range last_<N>_<unit> puts a condition on that column into the WHERE
\* clause of a successful translate (postgresql and clickhouse in their
\* documented syntax); the time restriction is never dropped from the SQL.
C25_TimeRangeEmitted ==
    (~IsNone(tres) /\ Val(tres).ok /\ tq.timeRange = Last7Days)
        => LET where == Val(tres).where
               filtersOnly == WhereConditions(tdialect, tq.filters, None)
           IN  /\ Len(where) = Len(filtersOnly) + 1
               /\ SubSeq(where, 1, Len(filtersOnly)) = filtersOnly
               /\ tdialect = "postgresql"
                      => where[Len(where)] = "ts >= CURRENT_TIMESTAMP - INTERVAL '7 days'"
               /\ tdialect = "clickhouse"
                      => where[Len(where)] = "ts >= now() - INTERVAL 7 days"

\* The operators _build_filter_condition has a branch for.
KnownOperators ==
    {"is_null", "is_not_null", "=", "!=", ">", ">=", "<", "<=", "in", "not_in",
     "contains", "starts_with", "ends_with"}

\* A filter list without its conditions of unknown operator, and without
\* the groups that are left with no condition.
RECURSIVE PruneUnknown(_)
PruneUnknown(filters) ==
    IF filters = <<>> THEN <<>>
    ELSE LET head == filters[1]
             rest == PruneUnknown(Tail(filters))
         IN  IF head.kind = "group"
             THEN LET inner == PruneUnknown(head.conditions)
                  IN  IF inner = <<>> THEN rest
                      ELSE <<[head EXCEPT !.conditions = inner]>> \o rest
             ELSE IF head.operator \in KnownOperators
             THEN <<head>> \o rest
             ELSE rest

\* Whether a filter list has a condition of unknown operator at any depth.
RECURSIVE HasUnknown(_)
HasUnknown(filters) ==
    \E i \in 1..Len(filters) :
        IF filters[i].kind = "group"
        THEN HasUnknown(filters[i].conditions)
        ELSE filters[i].operator \notin KnownOperators

\* C26: a filter condition with an unknown operator does not make translate
\* fail: the outcome and the SQL are those of the same query without that
\* condition (and without a group it leaves empty), so every other filter
\* clause and the time-range clause are emitted, one WHERE condition per
\* remaining top-level filter, and there is no WHERE at all when none remains.
C26_UnknownOperatorOmitted ==
    (~IsNone(tres) /\ HasUnknown(tq.filters))
        => LET kept == PruneUnknown(tq.filters)
               ref == Translate(tdialect, [tq EXCEPT !.filters = kept])
               timed == IF IsNone(tq.timeRange) THEN <<>>
                        ELSE WhereConditions(tdialect, <<>>, tq.timeRange)
           IN  /\ Val(tres).ok = ref.ok
               /\ Val(tres).err = ref.err
               /\ Val(tres).v = ref.v
               /\ Val(tres).ok =>
                     /\ Len(Val(tres).where) = Len(kept) + Len(timed)
                     /\ \A i \in 1..Len(Val(tres).where) : Val(tres).where[i] # ""
                     /\ SubSeq(Val(tres).where, Len(kept) + 1, Len(Val(tres).where)) = timed
                     /\ (kept = <<>> /\ timed = <<>>)
                            => BuildWhere(tdialect, tq.filters, tq.timeRange) = ""

\* translate has succeeded on a query whose first group keeps one condition
\* next to an unknown operator and whose second group holds nothing else,
\* with a time range: the WHERE clause has the group and the time condition.
C26_Witness ==
    /\ ~IsNone(tres)
    /\ Val(tres).ok
    /\ tdialect = "postgresql"
    /\ tq.filters = <<Group("or", <<CondUnknown, CondUS>>), Group("and", <<CondUnknown>>)>>
    /\ tq.timeRange = Last7Days
    /\ Len(Val(tres).where) = 2
    /\ Val(tres).where[2] = "ts >= CURRENT_TIMESTAMP - INTERVAL '7 days'"

\* The first five lines of the SQL of a successful translate, each with its
\* line end: SELECT, FROM, WHERE, GROUP BY and ORDER BY.
ClausesBeforeLimit(dialect, q, res) ==
    SelectClause(res.select, ~IsTimeGranularity(q)) \o "\n"
    \o BuildFrom(dialect, q.source).v \o "\n"
    \o (IF res.where = <<>> THEN "" ELSE "WHERE " \o JoinStr(res.where, " AND ")) \o "\n"
    \o GroupByClause(res.groupBy) \o "\n"
    \o BuildOrderBy(q.sort) \o "\n"

\* C27: the SQL of a successful translate ends, after its ORDER BY line, with
\* LIMIT l OFFSET o when isServerPagination is true (also for o = 0); when
\* it is false it ends with LIMIT l exactly when limit is non-null and
\* never has an OFFSET.
C27_LimitOffsetEmission ==
    (~IsNone(tres) /\ Val(tres).ok)
        => Val(tres).v =
               ClausesBeforeLimit(tdialect, tq, Val(tres))
               \o (IF tq.isServerPagination
                   THEN "LIMIT " \o ToString(Val(tq.limit))
                        \o " OFFSET " \o ToString(Val(tq.offset))
                   ELSE IF IsNone(tq.limit) THEN ""
                   ELSE "LIMIT " \o ToString(Val(tq.limit)))

\* translate has succeeded on a paginated query with offset 0.
C27_Witness ==
    /\ ~IsNone(tres)
    /\ Val(tres).ok
    /\ tq.isServerPagination
    /\ tq.limit = Some(1)
    /\ tq.offset = Some(0)

\* ------------------------------------------------------------------------
\* ConnectionService._load_predefined_connections
\* ------------------------------------------------------------------------

\* The most entries of the config file.
MaxEntries == 3

\* An entry of connections.yaml: its type key (None when the key is
\* missing) and whether its name and config make a valid Connection.
ConfigEntries ==
    { [type |-> Some("postgres"), valid |-> TRUE],
      [type |-> Some("clickhouse"), valid |-> TRUE],
      [type |-> Some("postgres"), valid |-> FALSE],
      [type |-> None, valid |-> TRUE] }

\* The config files: every list of at most MaxEntries entries.
ConfigChoices == UNION { [1..n -> ConfigEntries] : n \in 0..MaxEntries }

\* The entry loads: conn_data['type'] is there and Connection(...) validates.
WellFormed(entry) == ~IsNone(entry.type) /\ entry.valid

\* conn_id = f"predef_{i}_{conn_data['type']}"
PredefId(i, type) == "predef_" \o ToString(i) \o "_" \o type

\* The Connection built from entry i.
LoadedConnection(i, entry) == [id |-> PredefId(i, Val(entry.type)), name |-> "Warehouse"]

\* ConnectionService.__init__ up to the loop over the config's entries.
LInit ==
    /\ config \in ConfigChoices
    /\ li = 0
    /\ lpc = "loop"
    /\ CIdle
    /\ TIdle /\ QIdle /\ MIdle /\ DIdle /\ BIdle
    /\ HIdle

\* One iteration of the loop: the entry's connection is appended, or the
\* exception it raises leaves the loop for the except clause of the method.
LLoadEntry ==
    /\ lpc = "loop"
    /\ li < Len(config)
    /\ IF WellFormed(config[li + 1])
       THEN /\ predefined_connections' =
                   Append(predefined_connections, LoadedConnection(li, config[li + 1]))
            /\ li' = li + 1
            /\ UNCHANGED lpc
       ELSE /\ lpc' = "failed"
            /\ UNCHANGED <<predefined_connections, li>>
    /\ UNCHANGED <<config, session_connections, loaded, clast,
                   tvars, qvars, mvars, dvars, bvars, hvars>>

\* The loop has run through the entries.
LLoopEnds ==
    /\ lpc = "loop"
    /\ li = Len(config)
    /\ lpc' = "done"
    /\ UNCHANGED <<config, li, cvars, tvars, qvars, mvars, dvars, bvars, hvars>>

LNext == LLoadEntry \/ LLoopEnds

SpecLoader == LInit /\ [][LNext]_vars

\* C28: when the loader has returned, every well-formed entry of the config
\* file, before or after an entry that failed to load, is among the
\* predefined connections with the id predef_<index>_<type>, index its
\* position in the file.
C28_EntriesSkipOnTheirOwn ==
    lpc \in {"done", "failed"}
        => \A i \in 1..Len(config) :
               WellFormed(config[i])
                   => HasId(predefined_connections, PredefId(i - 1, Val(config[i].type)))

\* C29: on every driver, execute_query of a statement the backend runs
\* successfully with zero result rows returns an empty row list without
\* raising.
C29_ZeroRowsReturned ==
    \A i \in 1..Len(dcalls) :
        (dcalls[i].op = "execute_query" /\ ~dcalls[i].backend_fails /\ dcalls[i].rows = 0)
            => (~dcalls[i].raised /\ dcalls[i].returned = Some(0))

\* ------------------------------------------------------------------------
\* The routes that look a connection up: routers/connections.py and
\* routers/query.py, each request with the ConnectionService it is given
\* ------------------------------------------------------------------------

\* The most requests served.
MaxRequests == 3

\* The ids POST generates (conn_<uuid>).
GeneratedIds == {"conn_a", "conn_b"}

\* get_connection_service(): Depends calls it for every request, and it
\* builds a ConnectionService, whose __init__ loads the predefined
\* connections and starts with no session connections.
GetConnectionService(predefined) == [predefined |-> predefined, session |-> <<>>]

\* One entry of the request log.
Served(op, id, live, found, status) ==
    [op |-> op, id |-> id, live |-> live, found |-> found, status |-> status]

\* The process has started; no request yet.
HInit ==
    /\ hconfig \in PredefinedChoices
    /\ hlive = {}
    /\ hlog = <<>>
    /\ TIdle /\ QIdle /\ MIdle /\ CIdle /\ DIdle /\ BIdle /\ LIdle

\* POST /api/v1/connections: the connection gets a generated id and is
\* appended to the session list of this request's service.
HCreate(id, name) ==
    LET service == GetConnectionService(hconfig)
        saved == CreateConnection(service.session, [id |-> id, name |-> name])
    IN /\ Len(hlog) < MaxRequests
       /\ id \notin hlive
       /\ hlive' = hlive \cup {id}
       /\ hlog' = Append(hlog, Served("create", id, FALSE,
                                      HasId(saved, id), 201))
       /\ UNCHANGED <<hconfig, tvars, qvars, mvars, cvars, dvars, bvars, lvars>>

\* GET, PUT and DELETE /api/v1/connections/{id} and POST /execute: each
\* starts with service.get_connection(id) and answers 404 when it is None.
HLookup(op, id) ==
    LET service == GetConnectionService(hconfig)
        existing == GetConnection(service.predefined, service.session, id)
        found == ~IsNone(existing)
    IN /\ Len(hlog) < MaxRequests
       /\ hlog' = Append(hlog, Served(op, id, id \in hlive, found,
                                      IF ~found THEN 404
                                      ELSE IF op = "delete" THEN 204 ELSE 200))
       /\ hlive' = IF op = "delete" /\ found /\ ~HasId(service.predefined, id)
                   THEN hlive \ {id} ELSE hlive
       /\ UNCHANGED <<hconfig, tvars, qvars, mvars, cvars, dvars, bvars, lvars>>

HNext ==
    \/ \E id \in GeneratedIds, name \in {"A"} : HCreate(id, name)
    \/ \E op \in {"get", "update", "delete", "execute"}, id \in ConnectionIds :
           HLookup(op, id)

SpecRoutes == HInit /\ [][HNext]_vars

\* C30: a session connection created by one request is found by
\* get_connection in every later request (GET, PUT, DELETE, query execute)
\* until it is deleted.
C30_SessionSharedAcrossRequests ==
    \A i \in 1..Len(hlog) :
        (hlog[i].op # "create" /\ hlog[i].live) => hlog[i].found

====
